---- MODULE Spec2Model ----
(***************************************************************************)
(* NonBlockingThingSpeakClass (src/src/NonBlockingThingSpeak.h): the       *)
(* pending-step stack, the HTTP response decoder, the request encoder and  *)
(* the result state, driven by run(), against a byte-stream Client and a   *)
(* millisecond clock.                                                      *)
(*                                                                         *)
(* Bytes received from the transport are sequences of one-character        *)
(* strings; text written to the transport is kept as strings.              *)
(***************************************************************************)
EXTENDS Integers, Sequences, FiniteSets, TLC

\* ------------------------------------------------------------------------
\* Program constants
\* ------------------------------------------------------------------------
FIELDNUM_MIN == 1
FIELDNUM_MAX == 8
FIELDLENGTH_MAX == 255
TIMEOUT_MS_SERVERRESPONSE == 5000
TS_OK_SUCCESS == 200
TS_ERR_OUT_OF_RANGE == -101
TS_ERR_INVALID_FIELD_NUM == -201
TS_ERR_SETFIELD_NOT_CALLED == -210
TS_ERR_CONNECT_FAILED == -301
TS_ERR_UNEXPECTED_FAIL == -302
TS_ERR_BAD_RESPONSE == -303
TS_ERR_TIMEOUT == -304
TS_ERR_NOT_INSERTED == -401
\* client->available() < 17 in getHTTPResponse
HeaderMinBytes == 17
\* unsigned long millis() and timestamp1 are 32 bits wide: a clock value is
\* kept as two 16-bit limbs <<high, low>>
Limb == 65536

\* ------------------------------------------------------------------------
\* Bounds of the model
\* ------------------------------------------------------------------------
\* number of requests issued in one behaviour
MaxRequests == 1
\* number of clock advances in one behaviour
MaxTicks == 2
\* number of deliveries the network splits one response into
MaxDeliveries == 3
\* callbacks of one request are counted up to this many
CbCap == 2

\* ------------------------------------------------------------------------
\* 32-bit unsigned clock arithmetic
\* ------------------------------------------------------------------------
\* a + d modulo 2^32, for 0 <= d < 2^16
U32Add(a, d) ==
  LET lo == a[2] + d
  IN IF lo < Limb THEN <<a[1], lo>> ELSE <<(a[1] + 1) % Limb, lo - Limb>>

\* a - b modulo 2^32
U32Sub(a, b) ==
  IF a[2] >= b[2] THEN <<(a[1] - b[1] + Limb) % Limb, a[2] - b[2]>>
  ELSE <<(a[1] - b[1] - 1 + 2 * Limb) % Limb, a[2] - b[2] + Limb>>

\* a > n, for 0 <= n < 2^16
U32Gt(a, n) == a[1] > 0 \/ a[2] > n

\* ------------------------------------------------------------------------
\* Bytes and the literals the decoder looks for
\* ------------------------------------------------------------------------
Digits == <<"0", "1", "2", "3", "4", "5", "6", "7", "8", "9">>

IsDigit(c) == \E i \in 1..10 : Digits[i] = c

DigitVal(c) == (CHOOSE i \in 1..10 : Digits[i] = c) - 1

HTTP11 == <<"H", "T", "T", "P", "/", "1", ".", "1">>

ContentLengthName == <<"C", "o", "n", "t", "e", "n", "t", "-", "L", "e", "n", "g", "t", "h", ":">>

CRLF == <<"\r", "\n">>

HeaderEnd == CRLF \o CRLF

Tail2(s, from) == IF from > Len(s) THEN <<>> ELSE SubSeq(s, from, Len(s))

\* ------------------------------------------------------------------------
\* Stream primitives of the Client, applied to the bytes a call can read
\* ------------------------------------------------------------------------
\* Stream::find(target): index of the last byte of the first occurrence of
\* target in inp, 0 if the target never shows up before the read times out.
FindEnd(inp, target) ==
  LET ends == {e \in Len(target)..Len(inp) :
                 SubSeq(inp, e - Len(target) + 1, e) = target}
  IN IF ends = {} THEN 0 ELSE CHOOSE e \in ends : \A f \in ends : e <= f

\* bytes left unread after find: everything after the match, nothing when
\* the search read the stream dry.
FindRest(inp, target) ==
  IF FindEnd(inp, target) = 0 THEN <<>> ELSE Tail2(inp, FindEnd(inp, target) + 1)

\* Stream::parseInt(): skip every byte that is neither a digit nor '-', then
\* read an optional '-' and the digits that follow; 0 when no digit comes.
NumStart(inp) ==
  LET st == {i \in 1..Len(inp) : IsDigit(inp[i]) \/ inp[i] = "-"}
  IN IF st = {} THEN 0 ELSE CHOOSE i \in st : \A j \in st : i <= j

\* index of the last byte parseInt consumes (the first byte is consumed
\* whatever it is, then digits only)
NumEnd(inp) ==
  LET p == NumStart(inp)
      stops == {i \in (p + 1)..Len(inp) : ~IsDigit(inp[i])}
  IN IF p = 0 THEN Len(inp)
     ELSE IF stops = {} THEN Len(inp)
     ELSE (CHOOSE i \in stops : \A j \in stops : i <= j) - 1

RECURSIVE DecValue(_)
DecValue(ds) ==
  IF ds = <<>> THEN 0
  ELSE DecValue(SubSeq(ds, 1, Len(ds) - 1)) * 10 + DigitVal(ds[Len(ds)])

ParseIntValue(inp) ==
  LET p == NumStart(inp)
      e == NumEnd(inp)
  IN IF p = 0 THEN 0
     ELSE IF inp[p] = "-" THEN 0 - DecValue(Tail2(SubSeq(inp, 1, e), p + 1))
     ELSE DecValue(SubSeq(inp, p, e))

ParseIntRest(inp) == Tail2(inp, NumEnd(inp) + 1)

\* String::toInt() (atol): leading blanks, optional sign, digits; 0 otherwise
ToInt(text) ==
  LET black == {i \in 1..Len(text) : text[i] \notin {" ", "\t", "\r", "\n"}}
      p == IF black = {} THEN 0 ELSE CHOOSE i \in black : \A j \in black : i <= j
      signed == p > 0 /\ text[p] \in {"-", "+"}
      d == IF signed THEN p + 1 ELSE p
      nd == {i \in d..Len(text) : ~IsDigit(text[i])}
      e == IF nd = {} THEN Len(text) ELSE (CHOOSE i \in nd : \A j \in nd : i <= j) - 1
      v == IF p = 0 \/ e < d THEN 0 ELSE DecValue(SubSeq(text, d, e))
  IN IF signed /\ text[p] = "-" THEN 0 - v ELSE v

\* ------------------------------------------------------------------------
\* What the server may answer (the environment of the decoder)
\* ------------------------------------------------------------------------
Chars_OK == <<" ", "O", "K">>

Chars_200 == <<"2", "0", "0">>

Chars_404 == <<"4", "0", "4", " ", "N", "o", "t", " ", "F", "o", "u", "n", "d">>

Body_12_5 == <<"1", "2", ".", "5">>

Body_0 == <<"0">>

Body_abcd == <<"a", "b", "c", "d">>

Body_json == <<"{", "\"", "s", "t", "a", "t", "u", "s", "\"", ":", "\"", "a", "\"", "}">>

StatusLine(code) == HTTP11 \o <<" ">> \o code \o CRLF

LengthHeader(digits) == ContentLengthName \o <<" ">> \o digits

\* kind: how the response is (mal)formed; code, n, body: the status code, the
\* declared Content-Length and the n bytes after the blank line when the
\* response has them
Responses ==
  [ok       |-> [kind |-> "ok", code |-> 200, n |-> 4, body |-> Body_12_5,
                 bytes |-> StatusLine(Chars_200 \o Chars_OK) \o LengthHeader(<<"4">>)
                           \o HeaderEnd \o Body_12_5],
   okExtra  |-> [kind |-> "ok", code |-> 200, n |-> 4, body |-> Body_12_5,
                 bytes |-> StatusLine(Chars_200 \o Chars_OK) \o LengthHeader(<<"4">>)
                           \o HeaderEnd \o Body_12_5 \o CRLF],
   okZero   |-> [kind |-> "ok", code |-> 200, n |-> 1, body |-> Body_0,
                 bytes |-> StatusLine(Chars_200 \o Chars_OK) \o LengthHeader(<<"1">>)
                           \o HeaderEnd \o Body_0],
   okJson   |-> [kind |-> "ok", code |-> 200, n |-> 14, body |-> Body_json,
                 bytes |-> StatusLine(Chars_200 \o Chars_OK) \o LengthHeader(<<"1", "4">>)
                           \o HeaderEnd \o Body_json],
   notFound |-> [kind |-> "non200", code |-> 404, n |-> 1, body |-> Body_0,
                 bytes |-> StatusLine(Chars_404) \o LengthHeader(<<"1">>)
                           \o HeaderEnd \o Body_0],
   noHttp   |-> [kind |-> "noStatusLine", code |-> 200, n |-> 4, body |-> Body_12_5,
                 bytes |-> <<"H", "T", "T", "P", "/", "1", ".", "0", " ">> \o Chars_200
                           \o Chars_OK \o CRLF \o LengthHeader(<<"4">>)
                           \o HeaderEnd \o Body_12_5],
   badCode  |-> [kind |-> "badStatusCode", code |-> 0, n |-> 4, body |-> Body_12_5,
                 bytes |-> StatusLine(<<"O", "K", " ", "f", "i", "n", "e">>)
                           \o LengthHeader(<<"4">>) \o HeaderEnd \o Body_12_5],
   noLength |-> [kind |-> "noContentLength", code |-> 200, n |-> 0, body |-> <<>>,
                 bytes |-> StatusLine(Chars_200 \o Chars_OK)
                           \o <<"A", "g", "e", ":", " ", "4">> \o HeaderEnd \o Body_12_5],
   badLength |-> [kind |-> "badContentLength", code |-> 200, n |-> 0, body |-> <<>>,
                 bytes |-> StatusLine(Chars_200 \o Chars_OK) \o LengthHeader(<<"x">>)
                           \o CRLF \o <<"A", "g", "e", ":", " ", "4">> \o HeaderEnd
                           \o Body_abcd],
   noEnd    |-> [kind |-> "noHeaderEnd", code |-> 200, n |-> 4, body |-> <<>>,
                 bytes |-> StatusLine(Chars_200 \o Chars_OK) \o LengthHeader(<<"4">>)
                           \o CRLF \o Body_12_5],
   short    |-> [kind |-> "short", code |-> 200, n |-> 0, body |-> <<>>,
                 bytes |-> StatusLine(Chars_200)],
   short404 |-> [kind |-> "short", code |-> 404, n |-> 0, body |-> <<>>,
                 bytes |-> StatusLine(<<"4", "0", "4">>) \o CRLF],
   shortJunk |-> [kind |-> "short", code |-> 0, n |-> 0, body |-> <<>>,
                 bytes |-> <<"n", "o", "t", " ", "h", "t", "t", "p">>]]

ResponseIds == DOMAIN Responses

\* ------------------------------------------------------------------------
\* State
\* ------------------------------------------------------------------------
VARIABLES
  stackofreturns,      \* std::stack of pending steps, top is the last element
  lastReadStatus,
  httpresponsetext,
  timestamp1,
  contentLength,
  nextWriteField,      \* nextWriteField[0..7], indexed here by field number 1..8
  nextWriteLatitude,
  nextWriteLongitude,
  nextWriteElevation,
  nextWriteStatus,
  nextWriteTwitter,
  nextWriteTweet,
  nextWriteCreatedAt,
  lastFeed,
  client,              \* the Client: connected, rx (readable bytes), wire (bytes
                       \* the server sent that have not arrived), tx (what was
                       \* printed), and the connect()/stop() calls of the request
  now,                 \* millis()
  hist                 \* observation of the run: the request in progress, and
                       \* for the last call the program received (act) the steps
                       \* it entered, the callbacks it fired and what it printed

vars == <<stackofreturns, lastReadStatus, httpresponsetext, timestamp1, contentLength,
          nextWriteField, nextWriteLatitude, nextWriteLongitude, nextWriteElevation,
          nextWriteStatus, nextWriteTwitter, nextWriteTweet, nextWriteCreatedAt,
          lastFeed, client, now, hist>>

staged == <<nextWriteField, nextWriteLatitude, nextWriteLongitude, nextWriteElevation,
            nextWriteStatus, nextWriteTwitter, nextWriteTweet, nextWriteCreatedAt>>

\* A float, kept to the two decimals its conversions to text keep: the sign,
\* the whole part as two decimal limbs (whole = hi * 100000 + lo) and the
\* hundredths. NAN is the float that is not a number.
NAN == [nan |-> TRUE, neg |-> FALSE, hi |-> 0, lo |-> 0, cents |-> 0]

isnan(x) == x.nan

\* const char* NULL for an API key
NULL == "<NULL>"

FeedKeys == {"field1", "field2", "field3", "field4", "field5", "field6", "field7",
             "field8", "created_at", "latitude", "longitude", "elevation", "status"}

KeyChars ==
  [field1 |-> <<"f", "i", "e", "l", "d", "1">>, field2 |-> <<"f", "i", "e", "l", "d", "2">>,
   field3 |-> <<"f", "i", "e", "l", "d", "3">>, field4 |-> <<"f", "i", "e", "l", "d", "4">>,
   field5 |-> <<"f", "i", "e", "l", "d", "5">>, field6 |-> <<"f", "i", "e", "l", "d", "6">>,
   field7 |-> <<"f", "i", "e", "l", "d", "7">>, field8 |-> <<"f", "i", "e", "l", "d", "8">>,
   created_at |-> <<"c", "r", "e", "a", "t", "e", "d", "_", "a", "t">>,
   latitude |-> <<"l", "a", "t", "i", "t", "u", "d", "e">>,
   longitude |-> <<"l", "o", "n", "g", "i", "t", "u", "d", "e">>,
   elevation |-> <<"e", "l", "e", "v", "a", "t", "i", "o", "n">>,
   status |-> <<"s", "t", "a", "t", "u", "s">>]

\* The part of the state a step can touch, as one record
Cur ==
  [stack |-> stackofreturns, status |-> lastReadStatus, text |-> httpresponsetext,
   ts |-> timestamp1, cl |-> contentLength, feed |-> lastFeed,
   connected |-> client.connected, rx |-> client.rx, wire |-> client.wire,
   stops |-> client.stops, now |-> now, inv |-> <<>>, cbs |-> <<>>, tx |-> <<>>,
   ev |-> <<>>, key |-> "none", reset |-> FALSE]

Top(stk) == stk[Len(stk)]

\* variant of the deadline test: the step gives up at the deadline itself
TimedOut_atDeadline(s) == U32Gt(U32Sub(s.now, s.ts), TIMEOUT_MS_SERVERRESPONSE - 1)

\* millis() - timestamp1 > TIMEOUT_MS_SERVERRESPONSE
TimedOut(s) == U32Gt(U32Sub(s.now, s.ts), TIMEOUT_MS_SERVERRESPONSE)

\* a call on the Client or on the stack is made: the calls of one operation are
\* remembered in order
Event(s, e) == [s EXCEPT !.ev = Append(@, e)]

\* stackofreturns.emplace(step)
Push(s, step) == Event([s EXCEPT !.stack = Append(@, step)], step)

\* stackofreturns.pop()
Pop(s) == [s EXCEPT !.stack = SubSeq(@, 1, Len(@) - 1)]

\* a step function is entered: remember which one, and what it found: the
\* stack, available(), contentLength, whether the waiting window has expired,
\* whether the connection is open
Enter(s, step) ==
  [s EXCEPT !.inv = Append(@, [step |-> step, stk |-> s.stack, avail |-> Len(s.rx),
                               cl |-> s.cl, late |-> TimedOut(s),
                               open |-> s.connected])]

\* a caller-visible on...Callback(arg) is called
Callback(s, name, arg) == [s EXCEPT !.cbs = Append(@, [name |-> name, arg |-> arg])]

\* ------------------------------------------------------------------------
\* Response decoder
\* ------------------------------------------------------------------------
\* A faulty body step, to test the timeout properties against: on an expired
\* window it gives up without recording TS_ERR_TIMEOUT.
getHTTPResponse_1_keepsStatus(s0) ==
  LET s == Enter(s0, "getHTTPResponse_1")
      n == IF s.cl > 0 THEN s.cl ELSE 0
  IN IF Len(s.rx) < s.cl
     THEN IF TimedOut(s) THEN Pop(s) ELSE s
     ELSE Pop([s EXCEPT !.text = SubSeq(s.rx, 1, n), !.rx = Tail2(s.rx, n + 1)])

\* A faulty body step, to test the not-ready poll against: while it waits it
\* restarts the waiting window.
getHTTPResponse_1_rearms(s0) ==
  LET s == Enter(s0, "getHTTPResponse_1")
      n == IF s.cl > 0 THEN s.cl ELSE 0
  IN IF Len(s.rx) < s.cl
     THEN IF TimedOut(s) THEN Pop([s EXCEPT !.status = TS_ERR_TIMEOUT])
          ELSE [s EXCEPT !.ts = s.now]
     ELSE Pop([s EXCEPT !.text = SubSeq(s.rx, 1, n), !.rx = Tail2(s.rx, n + 1)])

\* variant of the body step: the deadline is tested before the bytes
getHTTPResponse_1_deadlineFirst(s0) ==
  LET s == Enter(s0, "getHTTPResponse_1")
      n == IF s.cl > 0 THEN s.cl ELSE 0
  IN IF TimedOut(s) THEN Pop([s EXCEPT !.status = TS_ERR_TIMEOUT])
     ELSE IF Len(s.rx) < s.cl THEN s
     ELSE Pop([s EXCEPT !.text = SubSeq(s.rx, 1, n), !.rx = Tail2(s.rx, n + 1)])

getHTTPResponse_1(s0) ==
  LET s == Enter(s0, "getHTTPResponse_1")
      n == IF s.cl > 0 THEN s.cl ELSE 0
  IN IF Len(s.rx) < s.cl
     THEN IF TimedOut(s) THEN Pop([s EXCEPT !.status = TS_ERR_TIMEOUT]) ELSE s
     ELSE Pop([s EXCEPT !.text = SubSeq(s.rx, 1, n), !.rx = Tail2(s.rx, n + 1)])

\* A faulty header step, to test the 17-byte threshold against: it starts
\* reading as soon as one byte is available.
getHTTPResponse_readsEarly(s0, k) ==
  LET s == Enter(s0, "getHTTPResponse")
      inp == s.rx \o SubSeq(s.wire, 1, k)
      w == Tail2(s.wire, k + 1)
      found1 == FindEnd(inp, HTTP11) # 0
      a == FindRest(inp, HTTP11)
      code == ParseIntValue(a)
      b == ParseIntRest(a)
      found2 == FindEnd(b, ContentLengthName) # 0
      c == FindRest(b, ContentLengthName)
      len == ParseIntValue(c)
      d == ParseIntRest(c)
      found3 == FindEnd(d, HeaderEnd) # 0
      e == FindRest(d, HeaderEnd)
  IN IF Len(s.rx) < 1
     THEN IF TimedOut(s) THEN Pop([s EXCEPT !.status = TS_ERR_TIMEOUT]) ELSE s
     ELSE IF ~found1
     THEN Pop([s EXCEPT !.status = TS_ERR_BAD_RESPONSE, !.rx = <<>>, !.wire = w])
     ELSE IF code # TS_OK_SUCCESS
     THEN Pop([s EXCEPT !.status = code, !.rx = b, !.wire = w])
     ELSE IF ~found2
     THEN Pop([s EXCEPT !.status = TS_ERR_BAD_RESPONSE, !.rx = <<>>, !.wire = w])
     ELSE IF ~found3
     THEN Pop([s EXCEPT !.status = TS_ERR_BAD_RESPONSE, !.cl = len, !.rx = <<>>,
                        !.wire = w])
     ELSE getHTTPResponse_1(
            Push(Pop([s EXCEPT !.status = code, !.cl = len, !.ts = s.now, !.rx = e,
                               !.wire = w]),
                 "getHTTPResponse_1"))

\* A faulty header step, to test the non-200 properties against: it records the
\* status code and goes on to the Content-Length and the body whatever the code.
getHTTPResponse_readsOn(s0, k) ==
  LET s == Enter(s0, "getHTTPResponse")
      inp == s.rx \o SubSeq(s.wire, 1, k)
      w == Tail2(s.wire, k + 1)
      found1 == FindEnd(inp, HTTP11) # 0
      a == FindRest(inp, HTTP11)
      code == ParseIntValue(a)
      b == ParseIntRest(a)
      found2 == FindEnd(b, ContentLengthName) # 0
      c == FindRest(b, ContentLengthName)
      len == ParseIntValue(c)
      d == ParseIntRest(c)
      found3 == FindEnd(d, HeaderEnd) # 0
      e == FindRest(d, HeaderEnd)
  IN IF Len(s.rx) < HeaderMinBytes
     THEN IF TimedOut(s) THEN Pop([s EXCEPT !.status = TS_ERR_TIMEOUT]) ELSE s
     ELSE IF ~found1
     THEN Pop([s EXCEPT !.status = TS_ERR_BAD_RESPONSE, !.rx = <<>>, !.wire = w])
     ELSE IF ~found2
     THEN Pop([s EXCEPT !.status = TS_ERR_BAD_RESPONSE, !.rx = <<>>, !.wire = w])
     ELSE IF ~found3
     THEN Pop([s EXCEPT !.status = TS_ERR_BAD_RESPONSE, !.cl = len, !.rx = <<>>,
                        !.wire = w])
     ELSE getHTTPResponse_1(
            Push(Pop([s EXCEPT !.status = code, !.cl = len, !.ts = s.now, !.rx = e,
                               !.wire = w]),
                 "getHTTPResponse_1"))

\* variant: the deadline armed when the request was sent also covers the body
getHTTPResponse_keepsDeadline(s0, k) ==
  LET s == Enter(s0, "getHTTPResponse")
      inp == s.rx \o SubSeq(s.wire, 1, k)
      w == Tail2(s.wire, k + 1)
      found1 == FindEnd(inp, HTTP11) # 0
      a == FindRest(inp, HTTP11)
      code == ParseIntValue(a)
      b == ParseIntRest(a)
      found2 == FindEnd(b, ContentLengthName) # 0
      c == FindRest(b, ContentLengthName)
      len == ParseIntValue(c)
      d == ParseIntRest(c)
      found3 == FindEnd(d, HeaderEnd) # 0
      e == FindRest(d, HeaderEnd)
  IN IF Len(s.rx) < HeaderMinBytes
     THEN IF TimedOut(s) THEN Pop([s EXCEPT !.status = TS_ERR_TIMEOUT]) ELSE s
     ELSE IF ~found1
     THEN Pop([s EXCEPT !.status = TS_ERR_BAD_RESPONSE, !.rx = <<>>, !.wire = w])
     ELSE IF code # TS_OK_SUCCESS
     THEN Pop([s EXCEPT !.status = code, !.rx = b, !.wire = w])
     ELSE IF ~found2
     THEN Pop([s EXCEPT !.status = TS_ERR_BAD_RESPONSE, !.rx = <<>>, !.wire = w])
     ELSE IF ~found3
     THEN Pop([s EXCEPT !.status = TS_ERR_BAD_RESPONSE, !.cl = len, !.rx = <<>>,
                        !.wire = w])
     ELSE getHTTPResponse_1(
            Push(Pop([s EXCEPT !.status = code, !.cl = len, !.rx = e,
                               !.wire = w]),
                 "getHTTPResponse_1"))

\* k: how many of the bytes still on the wire arrive while find()/parseInt()
\* wait for input (they wait for each byte up to the Stream timeout); the
\* arriving bytes are taken to be there from the step's first read.
getHTTPResponse(s0, k) ==
  LET s == Enter(s0, "getHTTPResponse")
      inp == s.rx \o SubSeq(s.wire, 1, k)
      w == Tail2(s.wire, k + 1)
      found1 == FindEnd(inp, HTTP11) # 0
      a == FindRest(inp, HTTP11)
      code == ParseIntValue(a)
      b == ParseIntRest(a)
      found2 == FindEnd(b, ContentLengthName) # 0
      c == FindRest(b, ContentLengthName)
      len == ParseIntValue(c)
      d == ParseIntRest(c)
      found3 == FindEnd(d, HeaderEnd) # 0
      e == FindRest(d, HeaderEnd)
  IN IF Len(s.rx) < HeaderMinBytes
     THEN IF TimedOut(s) THEN Pop([s EXCEPT !.status = TS_ERR_TIMEOUT]) ELSE s
     ELSE IF ~found1
     THEN Pop([s EXCEPT !.status = TS_ERR_BAD_RESPONSE, !.rx = <<>>, !.wire = w])
     ELSE IF code # TS_OK_SUCCESS
     THEN Pop([s EXCEPT !.status = code, !.rx = b, !.wire = w])
     ELSE IF ~found2
     THEN Pop([s EXCEPT !.status = TS_ERR_BAD_RESPONSE, !.rx = <<>>, !.wire = w])
     ELSE IF ~found3
     THEN Pop([s EXCEPT !.status = TS_ERR_BAD_RESPONSE, !.cl = len, !.rx = <<>>,
                        !.wire = w])
     ELSE getHTTPResponse_1(
            Push(Pop([s EXCEPT !.status = code, !.cl = len, !.ts = s.now, !.rx = e,
                               !.wire = w]),
                 "getHTTPResponse_1"))

\* ------------------------------------------------------------------------
\* Transport helpers
\* ------------------------------------------------------------------------
\* emptyStream(): read until available() is 0
emptyStream(s) == Event([s EXCEPT !.rx = <<>>], "drain")

\* client->stop(): the connection is gone, with whatever was still to come
stop(s) ==
  Event([s EXCEPT !.connected = FALSE, !.rx = <<>>, !.wire = <<>>, !.stops = @ + 1], "stop")

\* ------------------------------------------------------------------------
\* Cleanup steps
\* ------------------------------------------------------------------------
readRaw_1(s0) ==
  LET s == stop(emptyStream(Enter(s0, "readRaw_1")))
  IN Pop(IF s.status # TS_OK_SUCCESS THEN [s EXCEPT !.text = <<>>] ELSE s)

\* A faulty cleanup step, to test the close-once property against: on a failed
\* request it returns without closing the connection.
finishWrite_1_leavesOpen(s0) ==
  LET s == Pop(emptyStream(Enter(s0, "finishWrite_1")))
      entryID == ToInt(s.text)
  IN IF s.status # TS_OK_SUCCESS THEN s
     ELSE IF entryID = 0 THEN [stop(s) EXCEPT !.status = TS_ERR_NOT_INSERTED]
     ELSE stop(s)

finishWrite_1(s0) ==
  LET s == Pop(emptyStream(Enter(s0, "finishWrite_1")))
      entryID == ToInt(s.text)
  IN IF s.status # TS_OK_SUCCESS THEN stop(s)
     ELSE IF entryID = 0 THEN [stop(s) EXCEPT !.status = TS_ERR_NOT_INSERTED]
     ELSE stop(s)

\* ------------------------------------------------------------------------
\* Text helpers of the follow-up steps
\* ------------------------------------------------------------------------
\* String::indexOf(phrase, from): 0-based position, -1 when absent
IndexOf(text, phrase, from) ==
  LET hits == {i \in from..(Len(text) - Len(phrase)) :
                 SubSeq(text, i + 1, i + Len(phrase)) = phrase}
  IN IF hits = {} THEN -1 ELSE CHOOSE i \in hits : \A j \in hits : i <= j

SearchPhrase(key) == <<"\"">> \o KeyChars[key] \o <<"\"", ":", "\"">>

getJSONValueByKey(textToSearch, key) ==
  LET fromPosition == IndexOf(textToSearch, SearchPhrase(key), 0)
      from2 == fromPosition + Len(SearchPhrase(key))
      toPosition == IndexOf(textToSearch, <<"\"">>, from2)
  IN IF Len(textToSearch) = 0 THEN <<>>
     ELSE IF fromPosition = -1 THEN <<>>
     ELSE IF toPosition = -1 THEN <<>>
     ELSE SubSeq(SubSeq(textToSearch, 1, toPosition), from2 + 1, toPosition)

parseValues(multiContent, key) ==
  LET fromPosition == IndexOf(multiContent, SearchPhrase(key), 0)
      from2 == fromPosition + Len(SearchPhrase(key))
      toPosition == IndexOf(multiContent, <<"\"">>, from2)
  IN IF Len(multiContent) = 0 THEN <<>>
     ELSE IF fromPosition = -1 THEN <<>>
     ELSE IF toPosition = -1 THEN <<>>
     ELSE SubSeq(multiContent, from2 + 1, toPosition)

\* String::toFloat() is a conversion of the Arduino core: the float is kept as
\* the text it is converted from
convertStringToFloat(value) == [toFloat |-> value]

\* ------------------------------------------------------------------------
\* Completion steps (the lambdas and the _1 functions the operations push)
\* ------------------------------------------------------------------------
\* writeField's lambda: it calls the callback and leaves the stack alone
writeField_cb(s0) ==
  LET s == Enter(s0, "writeField_cb")
  IN Callback(s, "onWriteFieldCallback", s.status)

writeFields_cb(s0) ==
  LET s == Pop(Enter(s0, "writeFields_cb"))
  IN Callback(s, "onWriteFieldsCallback", s.status)

writeRaw_cb(s0) ==
  LET s == Pop(Enter(s0, "writeRaw_cb"))
  IN Callback(s, "onWriteRawCallback", s.status)

readStringField_cb(s0) ==
  LET s == Pop(Enter(s0, "readStringField_cb"))
  IN Callback(s, "onReadStringFieldCallback", s.text)

readFloatField_cb(s0) ==
  LET s == Pop(Enter(s0, "readFloatField_cb"))
  IN Callback(s, "onReadFloatFieldCallback", convertStringToFloat(s.text))

readLongField_cb(s0) ==
  LET s == Pop(Enter(s0, "readLongField_cb"))
  IN Callback(s, "onReadLongFieldCallback", ToInt(s.text))

readIntField_cb(s0) ==
  LET s == Pop(Enter(s0, "readIntField_cb"))
  IN Callback(s, "onReadIntFieldCallback", ToInt(s.text))

readStatus_1(s0) ==
  LET s == Pop(Enter(s0, "readStatus_1"))
  IN IF s.status # TS_OK_SUCCESS
     THEN Callback([s EXCEPT !.text = <<>>], "onReadStatusCallback", <<>>)
     ELSE Callback(s, "onReadStatusCallback", getJSONValueByKey(s.text, "status"))

readCreatedAt_1(s0) ==
  LET s == Pop(Enter(s0, "readCreatedAt_1"))
  IN IF s.status # TS_OK_SUCCESS
     THEN Callback([s EXCEPT !.text = <<>>], "onReadCreatedAtCallback", <<>>)
     ELSE Callback(s, "onReadCreatedAtCallback", getJSONValueByKey(s.text, "created_at"))

readMultipleFields_1(s0) ==
  LET s == Enter(s0, "readMultipleFields_1")
  IN IF s.status # TS_OK_SUCCESS
     THEN Callback(Pop(s), "onReadMultipleFieldsCallback", s.status)
     ELSE Callback(Pop([s EXCEPT !.feed = [key \in FeedKeys |-> parseValues(s.text, key)],
                                 !.status = TS_OK_SUCCESS]),
                   "onReadMultipleFieldsCallback", TS_OK_SUCCESS)

DecoderSteps == {"getHTTPResponse", "getHTTPResponse_1"}

CleanupSteps == {"readRaw_1", "finishWrite_1"}

CompletionSteps == {"writeField_cb", "writeFields_cb", "writeRaw_cb", "readStringField_cb",
                    "readFloatField_cb", "readLongField_cb", "readIntField_cb",
                    "readStatus_1", "readCreatedAt_1", "readMultipleFields_1"}

\* std::invoke(stackofreturns.top())
Invoke(step, s, k) ==
  CASE step = "getHTTPResponse" -> getHTTPResponse(s, k)
    [] step = "getHTTPResponse_1" -> getHTTPResponse_1(s)
    [] step = "readRaw_1" -> readRaw_1(s)
    [] step = "finishWrite_1" -> finishWrite_1(s)
    [] step = "writeField_cb" -> writeField_cb(s)
    [] step = "writeFields_cb" -> writeFields_cb(s)
    [] step = "writeRaw_cb" -> writeRaw_cb(s)
    [] step = "readStringField_cb" -> readStringField_cb(s)
    [] step = "readFloatField_cb" -> readFloatField_cb(s)
    [] step = "readLongField_cb" -> readLongField_cb(s)
    [] step = "readIntField_cb" -> readIntField_cb(s)
    [] step = "readStatus_1" -> readStatus_1(s)
    [] step = "readCreatedAt_1" -> readCreatedAt_1(s)
    [] step = "readMultipleFields_1" -> readMultipleFields_1(s)

\* variant of run(): the oldest pending step is invoked instead of the newest
run_oldestFirst(s, k) == IF s.stack # <<>> THEN Invoke(s.stack[1], s, k) ELSE s

\* run()
run(s, k) == IF s.stack # <<>> THEN Invoke(Top(s.stack), s, k) ELSE s

\* ------------------------------------------------------------------------
\* Request encoder
\* ------------------------------------------------------------------------
TS_USER_AGENT == "tslib-arduino/2.0.0 (unknown)"

\* Print::print(int)
RECURSIVE IntStr(_)
IntStr(n) == IF n < 10 THEN Digits[n + 1] ELSE IntStr(n \div 10) \o Digits[(n % 10) + 1]

\* variant: a refused connect() is tried a second time
connectThingSpeak_retries(s, ok) ==
  IF ok THEN Event([s EXCEPT !.connected = ok, !.rx = <<>>, !.wire = <<>>], "connect")
  ELSE Event(Event([s EXCEPT !.connected = ok, !.rx = <<>>, !.wire = <<>>],
                   "connectFailed"), "connectFailed")

\* n copies of a character
RECURSIVE Rep(_, _)
Rep(c, n) ==
  IF n = 0 THEN ""
  ELSE IF n % 2 = 0 THEN LET half == Rep(c, n \div 2) IN half \o half
  ELSE c \o Rep(c, n - 1)

\* String(float): dtostrf(value, 4, 2, buf), every digit of the whole part and
\* two decimals
StringOfFloat(x) ==
  (IF x.neg THEN "-" ELSE "")
  \o (IF x.hi = 0 THEN IntStr(x.lo)
      ELSE IntStr(x.hi) \o Rep("0", 5 - Len(IntStr(x.lo))) \o IntStr(x.lo))
  \o "." \o Rep("0", 2 - Len(IntStr(x.cents))) \o IntStr(x.cents)

\* Print::print(float) is the core's printFloat(value, 2). The cores differ:
\* printFloat as written for AVR, and kept by the SAM, SAMD and ESP32 cores,
\* prints "ovf" for a value beyond +-4294967040.0 and the digits otherwise;
\* the ESP8266 core prints what dtostrf gives.
PrintCores == {"printFloat", "dtostrf"}

PrintFloat(x, core) ==
  IF /\ core = "printFloat"
     /\ \/ x.hi > 42949
        \/ x.hi = 42949 /\ x.lo > 67040
        \/ x.hi = 42949 /\ x.lo = 67040 /\ x.cents > 0
  THEN "ovf"
  ELSE StringOfFloat(x)

\* client->connect(host, port): a new connection replaces whatever the client
\* held; ok is the transport's answer
connectThingSpeak(s, ok) ==
  Event([s EXCEPT !.connected = ok, !.rx = <<>>, !.wire = <<>>],
        IF ok THEN "connect" ELSE "connectFailed")

\* variant: the User-Agent header is printed before the Host header
writeHTTPHeader_agentFirst(APIKey) ==
  <<"User-Agent: ", TS_USER_AGENT, "\r\n", "Host: api.thingspeak.com\r\n">>
  \o (IF APIKey # NULL THEN <<"X-THINGSPEAKAPIKEY: ", APIKey, "\r\n">> ELSE <<>>)

\* the print calls of writeHTTPHeader, in order
writeHTTPHeader(APIKey) ==
  <<"Host: api.thingspeak.com\r\n", "User-Agent: ", TS_USER_AGENT, "\r\n">>
  \o (IF APIKey # NULL THEN <<"X-THINGSPEAKAPIKEY: ", APIKey, "\r\n">> ELSE <<>>)

\* A print call fails when it writes no byte: the transport refuses it (call
\* number failAt; 0 for a transport that takes everything) or the text is empty.
\* FirstFailed is the number of the first failing call of a list, 0 if none.
FirstFailed(prints, failAt) ==
  LET bad == {i \in 1..Len(prints) : i = failAt \/ Len(prints[i]) = 0}
  IN IF bad = {} THEN 0 ELSE CHOOSE i \in bad : \A j \in bad : i <= j

\* what reached the transport: every print before the first failing one
Written(prints, failAt) ==
  IF FirstFailed(prints, failAt) = 0 THEN prints
  ELSE SubSeq(prints, 1, FirstFailed(prints, failAt) - 1)

\* the print calls of a request, made until one fails: what reached the
\* transport, and one event for every call made
clientPrint(s, prints, failAt) ==
  [s EXCEPT !.tx = Written(prints, failAt),
            !.ev = @ \o [i \in 1..Len(Written(prints, failAt)) |-> "write"]
                     \o (IF FirstFailed(prints, failAt) # 0 THEN <<"writeFailed">>
                         ELSE <<>>)]

\* the server's answer r starts travelling once the request is flushed
flush(s, r) == Event([s EXCEPT !.wire = Responses[r].bytes], "flush")

abortReadRaw(s) == [stop(emptyStream(s)) EXCEPT !.status = TS_ERR_UNEXPECTED_FAIL]

\* variant: the abort drains the transport and leaves the connection open
abortWriteRaw_leavesOpen(s) == [emptyStream(s) EXCEPT !.reset = TRUE]

\* abortWriteRaw(): drain, close, resetWriteFields(); the caller gets -302
abortWriteRaw(s) == [stop(emptyStream(s)) EXCEPT !.reset = TRUE]

readRawPrints(channelNumber, suffixURL, readAPIKey) ==
  <<"GET ", "/channels/" \o IntStr(channelNumber) \o suffixURL, " HTTP/1.1\r\n">>
  \o writeHTTPHeader(readAPIKey) \o <<"\r\n">>

readRaw(s0, channelNumber, suffixURL, readAPIKey, ok, failAt, r) ==
  LET s == connectThingSpeak(s0, ok)
      prints == readRawPrints(channelNumber, suffixURL, readAPIKey)
      sent == clientPrint(s, prints, failAt)
  IN IF ~ok THEN [s EXCEPT !.status = TS_ERR_CONNECT_FAILED, !.text = <<>>]
     ELSE IF FirstFailed(prints, failAt) # 0
     THEN [abortReadRaw(sent) EXCEPT !.text = <<>>]
     ELSE getHTTPResponse(
            Push(Push([flush(sent, r) EXCEPT !.ts = s.now], "readRaw_1"),
                 "getHTTPResponse"), 0)

\* A faulty finishWrite, to test the step order against: it pushes the decoder
\* step first and the cleanup step on top of it.
finishWrite_swapped(s, r) ==
  getHTTPResponse(
    [Push(Push([flush(s, r) EXCEPT !.text = <<>>], "getHTTPResponse"), "finishWrite_1")
       EXCEPT !.ts = s.now], 0)

finishWrite(s, r) ==
  getHTTPResponse(
    [Push(Push([flush(s, r) EXCEPT !.text = <<>>], "finishWrite_1"), "getHTTPResponse")
       EXCEPT !.ts = s.now], 0)

writeRawPrints(postMessage, writeAPIKey) ==
  <<"POST /update HTTP/1.1\r\n">> \o writeHTTPHeader(writeAPIKey)
  \o <<"Content-Type: application/x-www-form-urlencoded\r\n", "Content-Length: ",
       IntStr(Len(postMessage \o "&headers=false")), "\r\n\r\n",
       postMessage \o "&headers=false">>

writeRawSilent(s0, channelNumber, postMessage, writeAPIKey, silent, ok, failAt, r) ==
  LET s == connectThingSpeak(s0, ok)
      prints == writeRawPrints(postMessage, writeAPIKey)
      sent == clientPrint(s, prints, failAt)
      failed == [s EXCEPT !.status = TS_ERR_CONNECT_FAILED]
      aborted == [abortWriteRaw(sent) EXCEPT !.status = TS_ERR_UNEXPECTED_FAIL]
  IN IF ~ok
     THEN IF silent THEN failed
          ELSE Callback(failed, "onWriteRawCallback", TS_ERR_CONNECT_FAILED)
     ELSE IF FirstFailed(prints, failAt) # 0
     THEN IF silent THEN aborted
          ELSE Callback(aborted, "onWriteRawCallback", aborted.status)
     ELSE finishWrite(IF silent THEN [sent EXCEPT !.reset = TRUE]
                      ELSE Push([sent EXCEPT !.reset = TRUE], "writeRaw_cb"), r)

writeRaw(s, channelNumber, postMessage, writeAPIKey, ok, failAt, r) ==
  writeRawSilent(s, channelNumber, postMessage, writeAPIKey, FALSE, ok, failAt, r)

writeField(s, channelNumber, field, value, writeAPIKey, ok, failAt, r) ==
  IF field < FIELDNUM_MIN \/ field > FIELDNUM_MAX
  THEN Callback(s, "onWriteFieldCallback", TS_ERR_INVALID_FIELD_NUM)
  ELSE IF Len(value) > FIELDLENGTH_MAX
  THEN Callback(s, "onWriteFieldCallback", TS_ERR_OUT_OF_RANGE)
  ELSE writeRawSilent(Push(s, "writeField_cb"), channelNumber,
                      "field" \o IntStr(field) \o "=" \o value, writeAPIKey, TRUE,
                      ok, failAt, r)

getWriteFieldsContentLength ==
  LET RECURSIVE FieldsLen(_)
      FieldsLen(iField) ==
        IF iField > FIELDNUM_MAX THEN 0
        ELSE (IF Len(nextWriteField[iField]) > 0
              THEN 8 + Len(nextWriteField[iField]) ELSE 0) + FieldsLen(iField + 1)
      contentLen ==
        FieldsLen(1)
        + (IF ~isnan(nextWriteLatitude)
           THEN 5 + Len(StringOfFloat(nextWriteLatitude)) ELSE 0)
        + (IF ~isnan(nextWriteLongitude)
           THEN 6 + Len(StringOfFloat(nextWriteLongitude)) ELSE 0)
        + (IF ~isnan(nextWriteElevation)
           THEN 11 + Len(StringOfFloat(nextWriteElevation)) ELSE 0)
        + (IF Len(nextWriteStatus) > 0 THEN 8 + Len(nextWriteStatus) ELSE 0)
        + (IF Len(nextWriteTwitter) > 0 THEN 9 + Len(nextWriteTwitter) ELSE 0)
        + (IF Len(nextWriteTweet) > 0 THEN 7 + Len(nextWriteTweet) ELSE 0)
        + (IF Len(nextWriteCreatedAt) > 0 THEN 12 + Len(nextWriteCreatedAt) ELSE 0)
  IN IF contentLen = 0 THEN 0 ELSE contentLen + 13

\* the body items of writeFields in the order the code visits them: whether
\* the item is set, and the print calls that write it
writeFieldsItems(core) ==
  [iField \in 1..FIELDNUM_MAX |->
     [set |-> Len(nextWriteField[iField]) > 0,
      prints |-> <<"field", IntStr(iField), "=", nextWriteField[iField]>>]]
  \o <<[set |-> ~isnan(nextWriteLatitude),
        prints |-> <<"lat=", PrintFloat(nextWriteLatitude, core)>>],
       [set |-> ~isnan(nextWriteLongitude),
        prints |-> <<"long=", PrintFloat(nextWriteLongitude, core)>>],
       [set |-> ~isnan(nextWriteElevation),
        prints |-> <<"elevation=", PrintFloat(nextWriteElevation, core)>>],
       [set |-> Len(nextWriteStatus) > 0, prints |-> <<"status=", nextWriteStatus>>],
       [set |-> Len(nextWriteTwitter) > 0, prints |-> <<"twitter=", nextWriteTwitter>>],
       [set |-> Len(nextWriteTweet) > 0, prints |-> <<"tweet=", nextWriteTweet>>],
       [set |-> Len(nextWriteCreatedAt) > 0,
        prints |-> <<"created_at=", nextWriteCreatedAt>>]>>

\* the print calls of the body: "&" before every set item but the first
RECURSIVE BodyPrints(_, _)
BodyPrints(items, fFirstItem) ==
  IF items = <<>> THEN <<>>
  ELSE IF ~items[1].set THEN BodyPrints(Tail(items), fFirstItem)
  ELSE (IF fFirstItem THEN <<>> ELSE <<"&">>) \o items[1].prints
       \o BodyPrints(Tail(items), FALSE)

writeFieldsPrints(writeAPIKey, core) ==
  <<"POST /update HTTP/1.1\r\n">> \o writeHTTPHeader(writeAPIKey)
  \o <<"Content-Type: application/x-www-form-urlencoded\r\n", "Content-Length: ",
       IntStr(getWriteFieldsContentLength), "\r\n\r\n">>
  \o BodyPrints(writeFieldsItems(core), TRUE) \o <<"&headers=false">>

writeFields(s0, channelNumber, writeAPIKey, core, ok, failAt, r) ==
  LET s == connectThingSpeak(s0, ok)
      prints == writeFieldsPrints(writeAPIKey, core)
      sent == clientPrint(s, prints, failAt)
  IN IF ~ok THEN Callback(s, "onWriteFieldsCallback", TS_ERR_CONNECT_FAILED)
     ELSE IF getWriteFieldsContentLength = 0
     THEN Callback(s, "onWriteFieldsCallback", TS_ERR_SETFIELD_NOT_CALLED)
     ELSE IF FirstFailed(prints, failAt) # 0
     THEN Callback(abortWriteRaw(sent), "onWriteFieldsCallback", TS_ERR_UNEXPECTED_FAIL)
     ELSE finishWrite(Push([sent EXCEPT !.reset = TRUE], "writeFields_cb"), r)

readStringFieldSilent(s, channelNumber, field, readAPIKey, silent, ok, failAt, r) ==
  IF field < FIELDNUM_MIN \/ field > FIELDNUM_MAX
  THEN LET bad == [s EXCEPT !.status = TS_ERR_INVALID_FIELD_NUM, !.text = <<>>]
       IN IF silent THEN bad ELSE Callback(bad, "onReadStringFieldCallback", <<>>)
  ELSE readRaw(IF silent THEN s ELSE Push(s, "readStringField_cb"), channelNumber,
               "/fields/" \o IntStr(field) \o "/last", readAPIKey, ok, failAt, r)

readStringField(s, channelNumber, field, readAPIKey, ok, failAt, r) ==
  readStringFieldSilent(s, channelNumber, field, readAPIKey, FALSE, ok, failAt, r)

readFloatField(s, channelNumber, field, readAPIKey, ok, failAt, r) ==
  readStringFieldSilent(Push(s, "readFloatField_cb"), channelNumber, field, readAPIKey,
                        TRUE, ok, failAt, r)

readLongField(s, channelNumber, field, readAPIKey, ok, failAt, r) ==
  readStringFieldSilent(Push(s, "readLongField_cb"), channelNumber, field, readAPIKey,
                        TRUE, ok, failAt, r)

readIntField(s, channelNumber, field, readAPIKey, ok, failAt, r) ==
  readStringFieldSilent(Push(s, "readIntField_cb"), channelNumber, field, readAPIKey,
                        TRUE, ok, failAt, r)

readStatus(s, channelNumber, readAPIKey, ok, failAt, r) ==
  readRaw(Push(s, "readStatus_1"), channelNumber, "/feeds/last.txt?status=true",
          readAPIKey, ok, failAt, r)

readCreatedAt(s, channelNumber, readAPIKey, ok, failAt, r) ==
  readRaw(Push(s, "readCreatedAt_1"), channelNumber, "/feeds/last.txt", readAPIKey,
          ok, failAt, r)

readMultipleFields(s, channelNumber, readAPIKey, ok, failAt, r) ==
  readRaw(Push(s, "readMultipleFields_1"), channelNumber,
          "/feeds/last.txt?status=true&location=true", readAPIKey, ok, failAt, r)

\* ------------------------------------------------------------------------
\* Staged values of a multi-field update
\* ------------------------------------------------------------------------
\* the state resetWriteFields() leaves
resetWriteFields ==
  /\ nextWriteField' = [iField \in 1..FIELDNUM_MAX |-> ""]
  /\ nextWriteLatitude' = NAN
  /\ nextWriteLongitude' = NAN
  /\ nextWriteElevation' = NAN
  /\ nextWriteStatus' = ""
  /\ nextWriteTwitter' = ""
  /\ nextWriteTweet' = ""
  /\ nextWriteCreatedAt' = ""

\* variant: the length of the value is checked before the field number
setFieldCode_lengthFirst(field, value) ==
  IF Len(value) > FIELDLENGTH_MAX THEN TS_ERR_OUT_OF_RANGE
  ELSE IF field < FIELDNUM_MIN \/ field > FIELDNUM_MAX THEN TS_ERR_INVALID_FIELD_NUM
  ELSE TS_OK_SUCCESS

\* setField(field, String value): the return code
setFieldCode(field, value) ==
  IF field < FIELDNUM_MIN \/ field > FIELDNUM_MAX THEN TS_ERR_INVALID_FIELD_NUM
  ELSE IF Len(value) > FIELDLENGTH_MAX THEN TS_ERR_OUT_OF_RANGE
  ELSE TS_OK_SUCCESS

\* getFieldAsString(field): the status it leaves in lastReadStatus
getFieldAsStringStatus(field) ==
  IF field < FIELDNUM_MIN \/ field > FIELDNUM_MAX THEN TS_ERR_INVALID_FIELD_NUM
  ELSE TS_OK_SUCCESS

getFieldAsStringValue(field) ==
  IF field < FIELDNUM_MIN \/ field > FIELDNUM_MAX THEN <<>>
  ELSE lastFeed["field" \o IntStr(field)]

\* ------------------------------------------------------------------------
\* Inputs of the environment
\* ------------------------------------------------------------------------
Channels == {12}

Keys == {NULL, "KEY"}

FieldInputs == {0, 1, 9}

\* a value that fits a field, and one a byte too long
ValueInputs == {"7", Rep("x", FIELDLENGTH_MAX + 1)}

PostMessages == {"field2=3"}

\* millis() when the sketch starts issuing requests: shortly before the 32-bit
\* counter wraps, so that a waiting window may or may not span the wrap
StartTimes == {<<Limb - 1, Limb - 5001>>}

\* timestamp1 and contentLength have no initializer; every request writes
\* them before a step reads them
UninitValues == {0, 7}

\* how far the clock moves between two calls
TickSteps == {5000, 5001}

\* how many bytes one delivery of the network brings
DeliverSizes(w) ==
  {n \in {1, HeaderMinBytes - 1, Len(w) - 1, Len(w)} : n >= 1 /\ n <= Len(w)}

\* the answers tried with an operation: every answer with the raw read and the
\* raw write, the answers that differ past the decoder with the others
CommonResponses == {"ok", "okZero", "okJson", "notFound", "short"}

ResponsesFor(op) == IF op \in {"readRaw", "writeRaw"} THEN ResponseIds ELSE CommonResponses

\* the cores a build can use; they differ only where a float is staged
Cores ==
  IF isnan(nextWriteLatitude) /\ isnan(nextWriteLongitude) /\ isnan(nextWriteElevation)
  THEN {"printFloat"} ELSE PrintCores

\* which print call the transport refuses: none (0), the first, one in the
\* middle, the last
FailPoints(prints) == {0, 1, (Len(prints) + 1) \div 2, Len(prints)}

\* how many bytes arrive while a header step that has started reading waits
Arrivals(s) ==
  IF s.stack # <<>> /\ Top(s.stack) = "getHTTPResponse" /\ Len(s.rx) >= HeaderMinBytes
  THEN {0} \cup DeliverSizes(s.wire)
  ELSE {0}

Min(a, b) == IF a < b THEN a ELSE b

\* ------------------------------------------------------------------------
\* Initial state: NonBlockingThingSpeakClass() and begin()
\* ------------------------------------------------------------------------
Init ==
  /\ stackofreturns = <<>>
  /\ lastReadStatus = TS_OK_SUCCESS
  /\ httpresponsetext = <<>>
  /\ \E u \in UninitValues : timestamp1 = <<0, u>> /\ contentLength = u
  /\ nextWriteField = [iField \in 1..FIELDNUM_MAX |-> ""]
  /\ nextWriteLatitude = NAN
  /\ nextWriteLongitude = NAN
  /\ nextWriteElevation = NAN
  /\ nextWriteStatus = ""
  /\ nextWriteTwitter = ""
  /\ nextWriteTweet = ""
  /\ nextWriteCreatedAt = ""
  /\ lastFeed = [key \in FeedKeys |-> <<>>]
  /\ client = [connected |-> FALSE, rx |-> <<>>, wire |-> <<>>, stops |-> 0]
  /\ now \in StartTimes
  /\ hist = [op |-> "none", resp |-> "none", nreq |-> 0, nticks |-> 0, ndeliv |-> 0,
             cbCount |-> 0, expired |-> FALSE, timedOut |-> "none",
             overdue |-> FALSE, act |-> "init", inv |-> <<>>,
             cbs |-> <<>>, tx |-> <<>>, ev |-> <<>>, key |-> "none", conn |-> "none",
             wfail |-> FALSE, hdrEnd |-> <<>>, prev |-> <<>>,
             call |-> [field |-> 0, value |-> "", ret |-> 0], base |-> 0,
             elapsed |-> 0, twin |-> <<>>]

\* ------------------------------------------------------------------------
\* Actions
\* ------------------------------------------------------------------------
\* the state a call leaves, written back
Commit(s) ==
  /\ stackofreturns' = s.stack
  /\ lastReadStatus' = s.status
  /\ httpresponsetext' = s.text
  /\ timestamp1' = s.ts
  /\ contentLength' = s.cl
  /\ lastFeed' = s.feed
  /\ client' = [connected |-> s.connected, rx |-> s.rx, wire |-> s.wire,
                stops |-> s.stops]
  /\ IF s.reset THEN resetWriteFields ELSE UNCHANGED staged
  /\ UNCHANGED now

\* a decoder step was entered with too few bytes and an expired window
TimedOutEntry(e) ==
  /\ e.step \in DecoderSteps
  /\ e.late
  /\ e.avail < (IF e.step = "getHTTPResponse" THEN HeaderMinBytes ELSE e.cl)

\* what the last call did
Observed(h, act, s) ==
  [h EXCEPT !.act = act, !.inv = s.inv, !.cbs = s.cbs, !.tx = s.tx, !.ev = s.ev,
            !.key = s.key,
            !.hdrEnd = IF \E i \in 1..Len(s.inv) : s.inv[i].step = "getHTTPResponse_1"
                          /\ i > 1 /\ s.inv[i - 1].step = "getHTTPResponse"
                       THEN <<s.now>> ELSE @,
            !.cbCount = Min(@ + Len(s.cbs), CbCap),
            !.elapsed = IF s.ts # timestamp1 THEN 0 ELSE @,
            !.timedOut = IF \E i \in 1..Len(s.inv) : TimedOutEntry(s.inv[i])
                         THEN s.inv[Len(s.inv)].step ELSE @]

\* the caller issues a request only when no step is pending
CanIssue == stackofreturns = <<>> /\ hist.nreq < MaxRequests

\* the sketch stages values only right before a write: reads are issued with
\* nothing staged
NothingStaged == getWriteFieldsContentLength = 0

\* the state a request starts from: the stop() calls are counted per request
Start == [Cur EXCEPT !.stops = 0]

\* the same, with the API key the caller passes
Begin(key) == [Start EXCEPT !.key = key]

\* whether the request's connect() was made, and its answer
ConnectOutcome(ev) ==
  IF \E i \in 1..Len(ev) : ev[i] = "connect" THEN "ok"
  ELSE IF \E i \in 1..Len(ev) : ev[i] = "connectFailed" THEN "failed"
  ELSE "none"

\* what is remembered of a request when its call returns
Requested(op, s, r) ==
  Observed([hist EXCEPT !.op = op, !.nreq = @ + 1, !.cbCount = 0, !.ndeliv = 0,
                        !.expired = FALSE, !.timedOut = "none", !.overdue = FALSE,
                        !.resp = IF s.wire # <<>> THEN r ELSE "none",
                        !.conn = ConnectOutcome(s.ev),
                        !.wfail = \E i \in 1..Len(s.ev) : s.ev[i] = "writeFailed",
                        !.hdrEnd = <<>>, !.prev = httpresponsetext,
                        !.base = Len(stackofreturns)],
           op, s)

Request(op, s, r) ==
  /\ Commit(s)
  /\ hist' = Requested(op, s, r)

WriteField ==
  /\ CanIssue
  /\ \E channelNumber \in Channels, field \in FieldInputs, value \in ValueInputs,
        key \in Keys, ok \in BOOLEAN,
        r \in ResponsesFor("writeField") :
       \E failAt \in FailPoints(writeRawPrints("field1=" \o value, key)) :
         Request("writeField",
                 writeField(Begin(key), channelNumber, field, value, key, ok, failAt, r), r)

WriteRaw ==
  /\ CanIssue
  /\ \E channelNumber \in Channels, postMessage \in PostMessages, key \in Keys,
        ok \in BOOLEAN, r \in ResponsesFor("writeRaw") :
       \E failAt \in FailPoints(writeRawPrints(postMessage, key)) :
         Request("writeRaw",
                 writeRaw(Begin(key), channelNumber, postMessage, key, ok, failAt, r), r)

WriteFields ==
  /\ CanIssue
  /\ \E channelNumber \in Channels, key \in Keys, core \in Cores, ok \in BOOLEAN,
        r \in ResponsesFor("writeFields") :
       \E failAt \in FailPoints(writeFieldsPrints(key, core)) :
         Request("writeFields",
                 writeFields(Begin(key), channelNumber, key, core, ok, failAt, r), r)

ReadRaw ==
  /\ CanIssue
  /\ NothingStaged
  /\ \E channelNumber \in Channels, key \in Keys, ok \in BOOLEAN,
        r \in ResponsesFor("readRaw") :
       \E failAt \in FailPoints(readRawPrints(channelNumber, "/feeds/last.txt", key)) :
         Request("readRaw",
                 readRaw(Begin(key), channelNumber, "/feeds/last.txt", key, ok, failAt, r), r)

ReadStringField ==
  /\ CanIssue
  /\ NothingStaged
  /\ \E channelNumber \in Channels, field \in FieldInputs, key \in Keys, ok \in BOOLEAN,
        r \in ResponsesFor("readStringField") :
       \E failAt \in FailPoints(readRawPrints(channelNumber, "/fields/1/last", key)) :
         Request("readStringField",
                 readStringField(Begin(key), channelNumber, field, key, ok, failAt, r), r)

ReadFloatField ==
  /\ CanIssue
  /\ NothingStaged
  /\ \E channelNumber \in Channels, field \in FieldInputs, key \in Keys, ok \in BOOLEAN,
        r \in ResponsesFor("readFloatField") :
       \E failAt \in FailPoints(readRawPrints(channelNumber, "/fields/1/last", key)) :
         Request("readFloatField",
                 readFloatField(Begin(key), channelNumber, field, key, ok, failAt, r), r)

ReadLongField ==
  /\ CanIssue
  /\ NothingStaged
  /\ \E channelNumber \in Channels, field \in FieldInputs, key \in Keys, ok \in BOOLEAN,
        r \in ResponsesFor("readLongField") :
       \E failAt \in FailPoints(readRawPrints(channelNumber, "/fields/1/last", key)) :
         Request("readLongField",
                 readLongField(Begin(key), channelNumber, field, key, ok, failAt, r), r)

ReadIntField ==
  /\ CanIssue
  /\ NothingStaged
  /\ \E channelNumber \in Channels, field \in FieldInputs, key \in Keys, ok \in BOOLEAN,
        r \in ResponsesFor("readIntField") :
       \E failAt \in FailPoints(readRawPrints(channelNumber, "/fields/1/last", key)) :
         Request("readIntField",
                 readIntField(Begin(key), channelNumber, field, key, ok, failAt, r), r)

ReadStatus ==
  /\ CanIssue
  /\ NothingStaged
  /\ \E channelNumber \in Channels, key \in Keys, ok \in BOOLEAN,
        r \in ResponsesFor("readStatus") :
       \E failAt \in FailPoints(readRawPrints(channelNumber, "/feeds/last.txt", key)) :
         Request("readStatus", readStatus(Begin(key), channelNumber, key, ok, failAt, r), r)

ReadCreatedAt ==
  /\ CanIssue
  /\ NothingStaged
  /\ \E channelNumber \in Channels, key \in Keys, ok \in BOOLEAN,
        r \in ResponsesFor("readCreatedAt") :
       \E failAt \in FailPoints(readRawPrints(channelNumber, "/feeds/last.txt", key)) :
         Request("readCreatedAt",
                 readCreatedAt(Begin(key), channelNumber, key, ok, failAt, r), r)

ReadMultipleFields ==
  /\ CanIssue
  /\ NothingStaged
  /\ \E channelNumber \in Channels, key \in Keys, ok \in BOOLEAN,
        r \in ResponsesFor("readMultipleFields") :
       \E failAt \in FailPoints(readRawPrints(channelNumber, "/feeds/last.txt", key)) :
         Request("readMultipleFields",
                 readMultipleFields(Begin(key), channelNumber, key, ok, failAt, r), r)

\* setField(field, value) between requests
SetField ==
  /\ stackofreturns = <<>>
  /\ \E field \in FieldInputs, value \in ValueInputs :
       /\ nextWriteField' = IF setFieldCode(field, value) = TS_OK_SUCCESS
                            THEN [nextWriteField EXCEPT ![field] = value]
                            ELSE nextWriteField
       /\ hist' = [hist EXCEPT !.act = "setField", !.inv = <<>>, !.cbs = <<>>,
                               !.tx = <<>>, !.ev = <<>>, !.key = "none"]
       /\ UNCHANGED <<stackofreturns, lastReadStatus, httpresponsetext, timestamp1,
                      contentLength, nextWriteLatitude, nextWriteLongitude,
                      nextWriteElevation, nextWriteStatus, nextWriteTwitter, nextWriteTweet,
                      nextWriteCreatedAt, lastFeed, client, now>>

\* getFieldAsString(field) between requests
GetFieldAsString ==
  \E field \in FieldInputs :
    /\ stackofreturns = <<>>
    /\ lastReadStatus' = getFieldAsStringStatus(field)
    /\ hist' = [hist EXCEPT !.act = "getFieldAsString", !.inv = <<>>, !.cbs = <<>>,
                            !.tx = <<>>, !.ev = <<>>, !.key = "none"]
    /\ UNCHANGED <<stackofreturns, httpresponsetext, timestamp1, contentLength, staged,
                   lastFeed, client, now>>

\* the caller's loop calls run()
Run ==
  /\ stackofreturns # <<>>
  /\ \E k \in Arrivals(Cur) :
       LET s == run(Cur, k)
       IN /\ Commit(s)
          /\ hist' = Observed(hist, "run", s)

\* bytes of the response arrive
Deliver ==
  \E n \in DeliverSizes(client.wire) :
    /\ client.connected
    /\ hist.ndeliv < MaxDeliveries
    /\ client' = [client EXCEPT !.rx = @ \o SubSeq(client.wire, 1, n),
                                !.wire = Tail2(client.wire, n + 1)]
    /\ hist' = [hist EXCEPT !.ndeliv = @ + 1]
    /\ UNCHANGED <<stackofreturns, lastReadStatus, httpresponsetext, timestamp1,
                   contentLength, staged, lastFeed, now>>

\* time passes while a decoder step waits
Tick ==
  \E d \in TickSteps :
    /\ stackofreturns # <<>>
    /\ Top(stackofreturns) \in DecoderSteps
    /\ ~TimedOut(Cur)
    /\ hist.nticks < MaxTicks
    /\ now' = U32Add(now, d)
    /\ hist' = [hist EXCEPT !.nticks = @ + 1, !.elapsed = @ + d,
                            !.expired = @ \/ TimedOut([Cur EXCEPT !.now = U32Add(now, d)]),
                            !.overdue = @ \/ (/\ Top(stackofreturns) = "getHTTPResponse_1"
                                              /\ Len(client.rx) < contentLength
                                              /\ TimedOut([Cur EXCEPT !.now = U32Add(now, d)]))]
    /\ UNCHANGED <<stackofreturns, lastReadStatus, httpresponsetext, timestamp1,
                   contentLength, staged, lastFeed, client>>

Next ==
  \/ WriteField
  \/ WriteRaw
  \/ WriteFields
  \/ ReadRaw
  \/ ReadStringField
  \/ ReadFloatField
  \/ ReadLongField
  \/ ReadIntField
  \/ ReadStatus
  \/ ReadCreatedAt
  \/ ReadMultipleFields
  \/ SetField
  \/ GetFieldAsString
  \/ Run
  \/ Deliver
  \/ Tick

Spec == Init /\ [][Next]_vars

\* ------------------------------------------------------------------------
\* Vocabulary of the properties
\* ------------------------------------------------------------------------
\* how the answer to the request in progress is formed ("none": none sent)
RespKind == IF hist.resp \in ResponseIds THEN Responses[hist.resp].kind ELSE "none"

Resp == Responses[hist.resp]

OnStack(steps) == \E i \in 1..Len(stackofreturns) : stackofreturns[i] \in steps

\* the last call the program received was run()
ByRun == hist.act = "run"

\* the last call entered the step
Entered(step) == \E i \in 1..Len(hist.inv) : hist.inv[i].step = step

\* the decoder has just finished and the cleanup step is next
DecoderDone == stackofreturns # <<>> /\ Top(stackofreturns) \in CleanupSteps

\* the request whose answer was awaited has reached its end: the last call was
\* the run() that took the last decoder or cleanup step off the stack, or one
\* after it
Terminal ==
  /\ hist.resp # "none"
  /\ ByRun
  /\ ~OnStack(DecoderSteps \cup CleanupSteps)

ReadOps == {"readRaw", "readStringField", "readFloatField", "readLongField",
            "readIntField", "readStatus", "readCreatedAt", "readMultipleFields"}

WriteOps == {"writeField", "writeFields", "writeRaw"}

WriteCallbacks == {"onWriteFieldCallback", "onWriteFieldsCallback", "onWriteRawCallback"}

\* ------------------------------------------------------------------------
\* C1: when the decoder has finished on a well-formed 200 response and no
\* waiting window expired, lastReadStatus is 200 and httpresponsetext is exactly
\* the n bytes after the blank line, however the transport split the bytes
\* across run() calls
\* ------------------------------------------------------------------------
C1_BodyExactOnEverySplit ==
  (DecoderDone /\ RespKind = "ok" /\ ~hist.expired)
    => (lastReadStatus = TS_OK_SUCCESS /\ httpresponsetext = Resp.body)

\* ------------------------------------------------------------------------
\* C2: once the completion callback of a request has fired, the stack has
\* depth 0
\* ------------------------------------------------------------------------
C2_StackEmptyAfterCallback == hist.cbCount > 0 => stackofreturns = <<>>

C5_MalformedStatusLineIsBadResponse ==
  /\ RespKind \in {"noStatusLine", "badStatusCode"} => ~Entered("getHTTPResponse_1")
  /\ (RespKind \in {"noStatusLine", "badStatusCode"} /\ Terminal /\ hist.timedOut = "none")
       => (lastReadStatus = TS_ERR_BAD_RESPONSE /\ httpresponsetext = <<>>)

C7_BadHeadersNever200 ==
  RespKind \in {"noContentLength", "badContentLength", "noHeaderEnd"} =>
    /\ DecoderDone => lastReadStatus # TS_OK_SUCCESS
    /\ (Terminal /\ hist.timedOut = "none")
         => (lastReadStatus = TS_ERR_BAD_RESPONSE /\ ~client.connected)

\* ------------------------------------------------------------------------
\* C8: lastReadStatus and httpresponsetext change only in a call in which a
\* decoder step ran and left no decoder step pending
\* ------------------------------------------------------------------------
C8_ResultChangedOnlyByDecoderAtEnd ==
  [][(lastReadStatus' # lastReadStatus \/ httpresponsetext' # httpresponsetext)
       => /\ \E i \in 1..Len(hist'.inv) : hist'.inv[i].step \in DecoderSteps
          /\ \A i \in 1..Len(stackofreturns') : stackofreturns'[i] \notin DecoderSteps]_vars

\* ------------------------------------------------------------------------
\* C9: every step that runs is the top of the stack; a cleanup step runs with
\* no decoder step left on the stack; a completion step runs with no decoder
\* or cleanup step left and, when the request was sent, with the transport
\* drained and closed
\* ------------------------------------------------------------------------
C9_StackOrder ==
  \A i \in 1..Len(hist.inv) :
    LET e == hist.inv[i]
    IN /\ e.stk # <<>>
       /\ e.step = Top(e.stk)
       /\ e.step \in CleanupSteps
            => \A j \in 1..Len(e.stk) : e.stk[j] \notin DecoderSteps
       /\ e.step \in CompletionSteps
            => /\ \A j \in 1..Len(e.stk) : e.stk[j] \notin DecoderSteps \cup CleanupSteps
               /\ hist.resp # "none" => (~e.open /\ e.avail = 0 /\ client.stops = 1)

C9_Witness ==
  /\ Entered("readStatus_1")
  /\ hist.resp = "okJson"
  /\ lastReadStatus = TS_OK_SUCCESS
  /\ client.stops = 1
  /\ stackofreturns = <<>>

\* ------------------------------------------------------------------------
\* C10: a run() call executes exactly one step, and no step is executed by
\* any other call
\* ------------------------------------------------------------------------
C10_OneStepPerRun ==
  /\ ByRun => Len(hist.inv) = 1
  /\ ~ByRun => hist.inv = <<>>

\* ------------------------------------------------------------------------
\* More vocabulary
\* ------------------------------------------------------------------------
\* the step from this state to the next is a run() call
RunStep ==
  /\ hist'.act = "run"
  /\ hist'.nreq = hist.nreq
  /\ hist'.ndeliv = hist.ndeliv
  /\ hist'.nticks = hist.nticks

\* the step on top of the stack awaits bytes that are not there yet
NotReady ==
  /\ stackofreturns # <<>>
  /\ \/ Top(stackofreturns) = "getHTTPResponse" /\ Len(client.rx) < HeaderMinBytes
     \/ Top(stackofreturns) = "getHTTPResponse_1" /\ Len(client.rx) < contentLength

\* ------------------------------------------------------------------------
\* C11: a run() call on an awaiting step whose bytes are not there and whose
\* window has not expired leaves the stack, lastReadStatus, httpresponsetext,
\* contentLength, timestamp1 and the client's unread bytes as they were
\* ------------------------------------------------------------------------
C11_NotReadyPollChangesNothing ==
  [][(RunStep /\ NotReady /\ ~TimedOut(Cur))
       => UNCHANGED <<stackofreturns, lastReadStatus, httpresponsetext, contentLength,
                      timestamp1, client>>]_vars

C11_Witness ==
  /\ ByRun
  /\ NotReady
  /\ Top(stackofreturns) = "getHTTPResponse_1"
  /\ Len(hist.inv) = 1
  /\ hist.inv[1].step = "getHTTPResponse_1"
  /\ ~hist.inv[1].late
  /\ hist.nticks > 0
  /\ client.rx # <<>>
  /\ timestamp1 # now

\* ------------------------------------------------------------------------
\* C12: the deadline start is re-armed in the call that parses the header end
\* and at no other point after the request was issued; the body step times out
\* exactly when more than 5000 ms have passed since the header end was parsed,
\* whatever part of the first window the header wait used
\* ------------------------------------------------------------------------
\* the call parsed the header end and went on to the body step
HeaderParsed ==
  \E i \in 2..Len(hist.inv) :
    hist.inv[i].step = "getHTTPResponse_1" /\ hist.inv[i - 1].step = "getHTTPResponse"

\* the call entered the body step while its bytes were short
BodyShort ==
  /\ ByRun /\ hist.inv # <<>>
  /\ hist.inv[Len(hist.inv)].step = "getHTTPResponse_1"
  /\ hist.inv[Len(hist.inv)].avail < hist.inv[Len(hist.inv)].cl

SinceHeaderEnd == U32Sub(now, hist.hdrEnd[1])

C12_DeadlineRearmedAtHeaderEnd ==
  [][/\ (timestamp1' # timestamp1 /\ hist'.nreq = hist.nreq)
          => (hist'.act = "run" /\ HeaderParsed' /\ timestamp1' = now')
     /\ (RunStep /\ HeaderParsed') => timestamp1' = now'
     /\ (RunStep /\ BodyShort')
          => /\ hist'.hdrEnd # <<>>
             /\ hist'.inv[Len(hist'.inv)].late
                  <=> U32Gt(SinceHeaderEnd', TIMEOUT_MS_SERVERRESPONSE)
             /\ hist'.inv[Len(hist'.inv)].late <=> lastReadStatus' = TS_ERR_TIMEOUT]_vars

\* the header wait used 5000 ms of the first window; the body step was then
\* polled after 5001 ms more and timed out
C12_Witness ==
  /\ BodyShort /\ hist.timedOut = "getHTTPResponse_1"
  /\ hist.nticks = 2 /\ hist.hdrEnd # <<>>
  /\ SinceHeaderEnd = <<0, TIMEOUT_MS_SERVERRESPONSE + 1>>
  /\ lastReadStatus = TS_ERR_TIMEOUT

\* ------------------------------------------------------------------------
\* The caller's loop and the clock, for the properties about termination
\* ------------------------------------------------------------------------
\* time passes while a decoder step waits, as often as the step is still
\* inside its window (millis() never stops)
Elapse ==
  \E d \in TickSteps :
    /\ stackofreturns # <<>>
    /\ Top(stackofreturns) \in DecoderSteps
    /\ ~TimedOut(Cur)
    /\ now' = U32Add(now, d)
    /\ hist' = [hist EXCEPT !.nticks = Min(@ + 1, MaxTicks), !.elapsed = @ + d,
                            !.expired = @ \/ TimedOut([Cur EXCEPT !.now = U32Add(now, d)]),
                            !.overdue = @ \/ (/\ Top(stackofreturns) = "getHTTPResponse_1"
                                              /\ Len(client.rx) < contentLength
                                              /\ TimedOut([Cur EXCEPT !.now = U32Add(now, d)]))]
    /\ UNCHANGED <<stackofreturns, lastReadStatus, httpresponsetext, timestamp1,
                   contentLength, staged, lastFeed, client>>

NextLive ==
  \/ WriteField
  \/ WriteRaw
  \/ WriteFields
  \/ ReadRaw
  \/ ReadStringField
  \/ ReadFloatField
  \/ ReadLongField
  \/ ReadIntField
  \/ ReadStatus
  \/ ReadCreatedAt
  \/ ReadMultipleFields
  \/ SetField
  \/ GetFieldAsString
  \/ Run
  \/ Deliver
  \/ Elapse

\* every request writes timestamp1 and contentLength before a step reads them:
\* one of their start values is followed
InitLive == Init /\ contentLength = 0

\* a call of run() would change the state: ENABLED <<Run>>_vars, computed from
\* the step run() would take
RunChanges ==
  /\ stackofreturns # <<>>
  /\ \E k \in Arrivals(Cur) :
       LET s == run(Cur, k)
       IN \/ <<s.stack, s.status, s.text, s.ts, s.cl, s.feed>>
               # <<stackofreturns, lastReadStatus, httpresponsetext, timestamp1,
                   contentLength, lastFeed>>
          \/ [connected |-> s.connected, rx |-> s.rx, wire |-> s.wire,
              stops |-> s.stops] # client
          \/ (s.reset /\ ~NothingStaged)
          \/ Observed(hist, "run", s) # hist

\* weak fairness of run(), with its enabling condition written as RunChanges
RunFair == []<>(~RunChanges) \/ []<><<Run>>_vars

\* loop() calls run() again and again and the clock advances; nothing is
\* assumed about the network
SpecLive == InitLive /\ [][NextLive]_vars /\ RunFair /\ WF_vars(Elapse)

\* the request in progress has no decoder or cleanup step left
StepsGone == ~OnStack(DecoderSteps \cup CleanupSteps)

\* ------------------------------------------------------------------------
\* C13: every issued request eventually has all its decoder and cleanup steps
\* off the stack and the transport closed, whatever the network delivers
\* ------------------------------------------------------------------------
C13_EveryRequestEndsClosed ==
  (hist.nreq > 0) ~> (StepsGone /\ ~client.connected)

\* the same for the requests that were sent and wait for their answer
C13_SentRequestEndsClosed ==
  (hist.nreq > 0 /\ ~StepsGone) ~> (StepsGone /\ ~client.connected)

\* ------------------------------------------------------------------------
\* Vocabulary of the encoder properties
\* ------------------------------------------------------------------------
\* the last call was the one that issued the request
ByRequest == hist.nreq > 0 /\ hist.act = hist.op

\* how many calls of one kind the last call made on the transport or the stack
Count(e) == Cardinality({i \in 1..Len(hist.ev) : hist.ev[i] = e})

\* the status code the request reports to its caller, where it has reported
\* one: the argument of the write callbacks, lastReadStatus for the reads (and
\* for writeField, whose callback is handed getLastReadStatus())
Reported(code) ==
  /\ (hist.op \in ReadOps \cup {"writeField", "writeRaw"} /\ (ByRequest \/ ByRun))
       => lastReadStatus = code
  /\ \A i \in 1..Len(hist.cbs) :
       hist.cbs[i].name \in WriteCallbacks => hist.cbs[i].arg = code
  /\ (ByRequest /\ hist.op \in {"writeRaw", "writeFields"}) => Len(hist.cbs) = 1

\* ------------------------------------------------------------------------
\* C14: when a print of the request fails, nothing more is written, the
\* transport is drained and then closed, no decoder step is pushed or run, and
\* the request reports TS_ERR_UNEXPECTED_FAIL
\* ------------------------------------------------------------------------
C14_WriteFailureAborts ==
  hist.wfail =>
    /\ ~client.connected /\ client.rx = <<>> /\ client.stops = 1
    /\ ~OnStack(DecoderSteps \cup CleanupSteps)
    /\ \A i \in 1..Len(hist.inv) : hist.inv[i].step \notin DecoderSteps \cup CleanupSteps
    /\ Reported(TS_ERR_UNEXPECTED_FAIL)
    /\ ByRequest =>
         LET n == Len(hist.ev)
         IN /\ n >= 4
            /\ SubSeq(hist.ev, n - 2, n) = <<"writeFailed", "drain", "stop">>
            /\ Count("write") = Len(hist.tx)
            /\ Count("writeFailed") = 1 /\ Count("drain") = 1 /\ Count("stop") = 1
            /\ Count("flush") = 0
            /\ \A step \in DecoderSteps \cup CleanupSteps : Count(step) = 0

\* writeFields is refused a print in the middle of its request
C14_Witness ==
  /\ hist.wfail /\ ByRequest /\ hist.op = "writeFields"
  /\ Len(hist.tx) > 1
  /\ hist.cbs = <<[name |-> "onWriteFieldsCallback", arg |-> TS_ERR_UNEXPECTED_FAIL]>>
  /\ ~client.connected

\* the request reported an error: a status other than 200 in lastReadStatus or
\* handed to a write callback
ErrorEnd ==
  \/ (ByRequest \/ ByRun) /\ lastReadStatus # TS_OK_SUCCESS
  \/ \E i \in 1..Len(hist.cbs) :
       hist.cbs[i].name \in WriteCallbacks /\ hist.cbs[i].arg # TS_OK_SUCCESS

\* ------------------------------------------------------------------------
\* C15: a request that ended in an error after connect() succeeded has, once
\* it has no decoder or cleanup step left, a transport that is drained and
\* closed
\* ------------------------------------------------------------------------
C15_ErrorEndsDrainedAndClosed ==
  (hist.conn = "ok" /\ StepsGone /\ ErrorEnd)
    => (~client.connected /\ client.rx = <<>> /\ client.stops = 1)

\* the calls a request can make on the transport
TransportCalls == {"connect", "connectFailed", "write", "writeFailed", "flush", "drain",
                   "stop"}

\* the request was turned down for its arguments, or for nothing being staged:
\* a read that ended inside the call with one of the codes and neither a
\* refused connect nor a refused print, a write whose callback got the code
ValidationError ==
  LET codes == {TS_ERR_INVALID_FIELD_NUM, TS_ERR_OUT_OF_RANGE, TS_ERR_SETFIELD_NOT_CALLED}
  IN \/ /\ hist.op \in ReadOps /\ lastReadStatus \in codes
        /\ Count("readRaw_1") = 0 /\ Count("connectFailed") = 0
        /\ Count("writeFailed") = 0
     \/ \E i \in 1..Len(hist.cbs) :
          hist.cbs[i].name \in WriteCallbacks /\ hist.cbs[i].arg \in codes

\* ------------------------------------------------------------------------
\* C16: a request turned down for a field outside 1..8, a value longer than
\* 255 bytes or nothing staged makes no call on the transport
\* ------------------------------------------------------------------------
C16_ValidationErrorNoTransport ==
  (ByRequest /\ ValidationError)
    => /\ \A e \in TransportCalls : Count(e) = 0
       /\ hist.tx = <<>>
       /\ ~client.connected /\ client.stops = 0

\* how often a print call with this text reached the transport
Printed(text) == Cardinality({i \in 1..Len(hist.tx) : hist.tx[i] = text})

\* ------------------------------------------------------------------------
\* C17: a request calls connect() at most once and before any print, writes no
\* part of the request twice, and run() never connects or prints; when
\* connect() is refused nothing is written, no decoder step is pushed and the
\* request reports TS_ERR_CONNECT_FAILED
\* ------------------------------------------------------------------------
C17_NoRetry ==
  /\ ByRequest =>
       /\ Count("connect") + Count("connectFailed") <= 1
       /\ \A i \in 1..Len(hist.ev) :
            hist.ev[i] \in {"write", "writeFailed", "flush"}
              => \E j \in 1..(i - 1) : hist.ev[j] = "connect"
       /\ Count("write") = Len(hist.tx)
       /\ Count("flush") <= 1
       /\ \A text \in {"GET ", "POST /update HTTP/1.1\r\n", "Host: api.thingspeak.com\r\n",
                       "User-Agent: ", "X-THINGSPEAKAPIKEY: ", "Content-Length: ",
                       "&headers=false"} : Printed(text) <= 1
  /\ ByRun => \A e \in TransportCalls \ {"drain", "stop"} : Count(e) = 0
  /\ hist.conn = "failed" =>
       /\ ~OnStack(DecoderSteps \cup CleanupSteps)
       /\ \A i \in 1..Len(hist.inv) :
            hist.inv[i].step \notin DecoderSteps \cup CleanupSteps
       /\ ~client.connected /\ client.wire = <<>>
       /\ Reported(TS_ERR_CONNECT_FAILED)
       /\ ByRequest =>
            /\ hist.tx = <<>>
            /\ Count("connectFailed") = 1
            /\ \A e \in TransportCalls \ {"connectFailed"} : Count(e) = 0
            /\ \A step \in DecoderSteps \cup CleanupSteps : Count(step) = 0

\* connect() was refused to writeField; the run() after it reports -301
C17_Witness ==
  /\ hist.conn = "failed" /\ ByRun /\ hist.op = "writeField"
  /\ hist.cbs = <<[name |-> "onWriteFieldCallback", arg |-> TS_ERR_CONNECT_FAILED]>>
  /\ ~client.connected /\ client.stops = 0

\* ------------------------------------------------------------------------
\* Staging a multi-field update, and the encoder on its own
\* ------------------------------------------------------------------------
\* at most this many items are staged for one update
MaxStaged == 3

\* 12.50, -7.25 and 5000000000.00
FloatInputs ==
  {[nan |-> FALSE, neg |-> FALSE, hi |-> 0, lo |-> 12, cents |-> 50],
   [nan |-> FALSE, neg |-> TRUE, hi |-> 0, lo |-> 7, cents |-> 25],
   [nan |-> FALSE, neg |-> FALSE, hi |-> 50000, lo |-> 0, cents |-> 0]}

\* how many items are staged
StagedCount ==
  Cardinality({iField \in 1..FIELDNUM_MAX : Len(nextWriteField[iField]) > 0})
  + Cardinality({x \in {<<"lat", nextWriteLatitude>>, <<"long", nextWriteLongitude>>,
                        <<"elevation", nextWriteElevation>>} : ~isnan(x[2])})
  + Cardinality({x \in {<<"status", nextWriteStatus>>, <<"twitter", nextWriteTwitter>>,
                        <<"tweet", nextWriteTweet>>,
                        <<"created_at", nextWriteCreatedAt>>} : Len(x[2]) > 0})

\* the sketch stages values before it issues the request
Staging == CanIssue /\ StagedCount < MaxStaged

\* a setter was called: nothing but the staged value changes
Setter(name) ==
  /\ hist' = [hist EXCEPT !.act = name, !.inv = <<>>, !.cbs = <<>>, !.tx = <<>>,
                          !.ev = <<>>, !.key = "none"]
  /\ UNCHANGED <<stackofreturns, lastReadStatus, httpresponsetext, timestamp1,
                 contentLength, lastFeed, client, now>>

\* setField(field, value) for every field of the update
SetAnyField ==
  /\ Staging
  /\ \E field \in FIELDNUM_MIN..FIELDNUM_MAX, value \in {v \in ValueInputs : Len(v) = 1} :
       /\ nextWriteField' = IF setFieldCode(field, value) = TS_OK_SUCCESS
                            THEN [nextWriteField EXCEPT ![field] = value]
                            ELSE nextWriteField
       /\ Setter("setField")
       /\ UNCHANGED <<nextWriteLatitude, nextWriteLongitude, nextWriteElevation,
                      nextWriteStatus, nextWriteTwitter, nextWriteTweet, nextWriteCreatedAt>>

SetLatitude ==
  /\ Staging
  /\ \E latitude \in FloatInputs :
       /\ nextWriteLatitude' = latitude
       /\ Setter("setLatitude")
       /\ UNCHANGED <<nextWriteField, nextWriteLongitude, nextWriteElevation,
                      nextWriteStatus, nextWriteTwitter, nextWriteTweet, nextWriteCreatedAt>>

SetLongitude ==
  /\ Staging
  /\ \E longitude \in FloatInputs :
       /\ nextWriteLongitude' = longitude
       /\ Setter("setLongitude")
       /\ UNCHANGED <<nextWriteField, nextWriteLatitude, nextWriteElevation,
                      nextWriteStatus, nextWriteTwitter, nextWriteTweet, nextWriteCreatedAt>>

SetElevation ==
  /\ Staging
  /\ \E elevation \in FloatInputs :
       /\ nextWriteElevation' = elevation
       /\ Setter("setElevation")
       /\ UNCHANGED <<nextWriteField, nextWriteLatitude, nextWriteLongitude,
                      nextWriteStatus, nextWriteTwitter, nextWriteTweet, nextWriteCreatedAt>>

SetStatus ==
  /\ Staging
  /\ \E status \in {"ok"} :
       /\ nextWriteStatus' = IF Len(status) > FIELDLENGTH_MAX THEN nextWriteStatus
                             ELSE status
       /\ Setter("setStatus")
       /\ UNCHANGED <<nextWriteField, nextWriteLatitude, nextWriteLongitude,
                      nextWriteElevation, nextWriteTwitter, nextWriteTweet,
                      nextWriteCreatedAt>>

SetTwitterTweet ==
  /\ Staging
  /\ StagedCount + 2 <= MaxStaged
  /\ \E t \in {<<"@u", "hi">>} :
       LET tooLong == Len(t[1]) > FIELDLENGTH_MAX \/ Len(t[2]) > FIELDLENGTH_MAX
       IN /\ nextWriteTwitter' = IF tooLong THEN nextWriteTwitter ELSE t[1]
          /\ nextWriteTweet' = IF tooLong THEN nextWriteTweet ELSE t[2]
          /\ Setter("setTwitterTweet")
          /\ UNCHANGED <<nextWriteField, nextWriteLatitude, nextWriteLongitude,
                         nextWriteElevation, nextWriteStatus, nextWriteCreatedAt>>

SetCreatedAt ==
  /\ Staging
  /\ \E createdAt \in {"2026-11-01T00:00:00Z"} :
       /\ nextWriteCreatedAt' = IF Len(createdAt) > FIELDLENGTH_MAX
                                THEN nextWriteCreatedAt ELSE createdAt
       /\ Setter("setCreatedAt")
       /\ UNCHANGED <<nextWriteField, nextWriteLatitude, nextWriteLongitude,
                      nextWriteElevation, nextWriteStatus, nextWriteTwitter,
                      nextWriteTweet>>

\* the sketch stages an update and sends it, or sends a single value or a raw
\* message with nothing staged
NextEnc ==
  \/ SetAnyField
  \/ SetLatitude
  \/ SetLongitude
  \/ SetElevation
  \/ SetStatus
  \/ SetTwitterTweet
  \/ SetCreatedAt
  \/ WriteFields
  \/ NothingStaged /\ WriteRaw
  \/ NothingStaged /\ WriteField

SpecEnc == InitLive /\ [][NextEnc]_vars

\* the total length of the texts printed
RECURSIVE SumLen(_)
SumLen(prints) == IF prints = <<>> THEN 0 ELSE Len(prints[1]) + SumLen(Tail(prints))

\* a POST was written to its end
PostSent == ByRequest /\ hist.op \in WriteOps /\ Count("flush") = 1

\* where the Content-Length header starts among the print calls that were made
LengthAt == CHOOSE i \in 1..Len(hist.tx) : hist.tx[i] = "Content-Length: "

\* ------------------------------------------------------------------------
\* C18: in every POST that was sent, the number printed after "Content-Length: "
\* is the number of bytes printed after the blank line
\* ------------------------------------------------------------------------
C18_ContentLengthIsBodyLength ==
  PostSent =>
    /\ Printed("Content-Length: ") = 1
    /\ hist.tx[LengthAt + 2] = "\r\n\r\n"
    /\ hist.tx[LengthAt + 1]
         = IntStr(SumLen(SubSeq(hist.tx, LengthAt + 3, Len(hist.tx))))

\* The print calls every request starts with, in order: "*" stands for the
\* text that varies with the arguments (the path of a GET, the length of a
\* POST body). The body of a POST follows.
HeadOf(op, key) ==
  (IF op \in ReadOps THEN <<"GET ", "*", " HTTP/1.1\r\n">>
   ELSE <<"POST /update HTTP/1.1\r\n">>)
  \o <<"Host: api.thingspeak.com\r\n", "User-Agent: ", TS_USER_AGENT, "\r\n">>
  \o (IF key # NULL THEN <<"X-THINGSPEAKAPIKEY: ", key, "\r\n">> ELSE <<>>)
  \o (IF op \in ReadOps THEN <<"\r\n">>
      ELSE <<"Content-Type: application/x-www-form-urlencoded\r\n", "Content-Length: ",
             "*", "\r\n\r\n">>)

\* ------------------------------------------------------------------------
\* C19: after a successful connect the request is printed in the fixed order
\* (request line, Host, User-Agent, the key header exactly when a key is
\* given, then Content-Type, Content-Length, blank line and body for a POST and
\* the blank line alone for a GET); flush() and the push of the decoder step
\* come only after the last print has succeeded
\* ------------------------------------------------------------------------
C19_FixedOrderThenFlush ==
  (ByRequest /\ hist.conn = "ok") =>
    LET head == HeadOf(hist.op, hist.key)
        n == Len(hist.tx)
        sent == Count("flush") = 1
        last == CHOOSE i \in 0..Len(hist.ev) :
                  /\ i > 0 => hist.ev[i] = "write"
                  /\ \A j \in (i + 1)..Len(hist.ev) : hist.ev[j] # "write"
    IN /\ \A i \in 1..Min(n, Len(head)) : head[i] = "*" \/ hist.tx[i] = head[i]
       /\ hist.op \in ReadOps => n <= Len(head)
       /\ Printed("X-THINGSPEAKAPIKEY: ") = 1 => hist.key # NULL
       /\ Count("write") = n
       /\ \A i \in 1..Len(hist.ev) :
            hist.ev[i] \in {"flush", "getHTTPResponse"}
              => /\ sent /\ i > last /\ Count("writeFailed") = 0
                 /\ hist.ev[i] = "getHTTPResponse"
                      => \E j \in 1..(i - 1) : hist.ev[j] = "flush"
       /\ sent =>
            /\ Count("getHTTPResponse") = 1
            /\ Top(stackofreturns) \in DecoderSteps
            /\ IF hist.op \in ReadOps THEN n = Len(head)
               ELSE /\ n > Len(head)
                    /\ hist.op = "writeFields" => hist.tx[n] = "&headers=false"
       /\ ~sent => Count("getHTTPResponse") = 0 /\ ~OnStack(DecoderSteps)

\* a POST with an API key was written to its end and flushed
C19_Witness ==
  /\ PostSent /\ hist.conn = "ok" /\ hist.key # NULL
  /\ Printed("X-THINGSPEAKAPIKEY: ") = 1
  /\ Len(hist.tx) > Len(HeadOf(hist.op, hist.key))
  /\ Top(stackofreturns) = "getHTTPResponse"

\* ------------------------------------------------------------------------
\* Reads issued after a read that succeeded: httpresponsetext, lastReadStatus
\* and contentLength hold the earlier result when the request starts
\* ------------------------------------------------------------------------
\* bodies an earlier read left behind: one that converts to a non-zero number
\* and one that holds a status
EarlierBodies == {Body_12_5, Body_json}

\* the program after an earlier read that succeeded
EarlierRead ==
  /\ stackofreturns = <<>>
  /\ lastReadStatus = TS_OK_SUCCESS
  /\ httpresponsetext \in EarlierBodies
  /\ contentLength = Len(httpresponsetext)
  /\ now \in StartTimes
  /\ timestamp1 = now
  /\ nextWriteField = [iField \in 1..FIELDNUM_MAX |-> ""]
  /\ nextWriteLatitude = NAN
  /\ nextWriteLongitude = NAN
  /\ nextWriteElevation = NAN
  /\ nextWriteStatus = ""
  /\ nextWriteTwitter = ""
  /\ nextWriteTweet = ""
  /\ nextWriteCreatedAt = ""
  /\ lastFeed = [key \in FeedKeys |-> <<>>]
  /\ client = [connected |-> FALSE, rx |-> <<>>, wire |-> <<>>, stops |-> 0]

\* nothing has been observed yet
NoHistory ==
  [op |-> "none", resp |-> "none", nreq |-> 0, nticks |-> 0, ndeliv |-> 0,
   cbCount |-> 0, expired |-> FALSE, timedOut |-> "none",
   overdue |-> FALSE, act |-> "init", inv |-> <<>>,
   cbs |-> <<>>, tx |-> <<>>, ev |-> <<>>, key |-> "none", conn |-> "none",
   wfail |-> FALSE, hdrEnd |-> <<>>, prev |-> <<>>,
   call |-> [field |-> 0, value |-> "", ret |-> 0], base |-> 0,
   elapsed |-> 0, twin |-> <<>>]

InitAfterRead == EarlierRead /\ hist = NoHistory

\* getFieldAsString(field) called by the sketch's loop between two run()
\* calls of a request, when the decoder has ended and the cleanup step is next
GetFieldAsStringPending ==
  \E field \in FieldInputs :
    /\ stackofreturns # <<>>
    /\ Top(stackofreturns) = "readRaw_1"
    /\ lastReadStatus' = getFieldAsStringStatus(field)
    /\ hist' = [hist EXCEPT !.act = "getFieldAsString", !.inv = <<>>, !.cbs = <<>>,
                            !.tx = <<>>, !.ev = <<>>, !.key = "none"]
    /\ UNCHANGED <<stackofreturns, httpresponsetext, timestamp1, contentLength, staged,
                   lastFeed, client, now>>

NextAfterRead ==
  \/ GetFieldAsStringPending
  \/ ReadRaw
  \/ ReadStringField
  \/ ReadFloatField
  \/ ReadLongField
  \/ ReadIntField
  \/ ReadStatus
  \/ ReadCreatedAt
  \/ Run
  \/ Deliver
  \/ Tick

SpecAfterRead == InitAfterRead /\ [][NextAfterRead]_vars

\* the callbacks that hand a text to the caller, and those that hand a number
TextCallbacks ==
  {"onReadStringFieldCallback", "onReadStatusCallback", "onReadCreatedAtCallback"}

NumberCallbacks == {"onReadLongFieldCallback", "onReadIntFieldCallback"}

\* the read was refused for its field number: no connection was asked for
InvalidField ==
  /\ hist.op \in {"readStringField", "readFloatField", "readLongField", "readIntField"}
  /\ hist.conn = "none"

\* the read in progress has ended in an error: refused, not connected, not
\* written, timed out, or answered with a bad response or a status other than
\* 200 (the status the decoder left)
ReadError ==
  /\ hist.nreq > 0
  /\ hist.op \in ReadOps
  /\ \/ InvalidField
     \/ hist.conn = "failed"
     \/ hist.wfail
     \/ hist.timedOut # "none"
     \/ (StepsGone /\ lastReadStatus # TS_OK_SUCCESS)

\* ------------------------------------------------------------------------
\* C20: when a read has ended in an error, every read callback the call fires
\* gets the empty string (string, status, created-at) or 0 (long, int), never
\* what an earlier read left, and getLastReadStatus() is not 200
\* ------------------------------------------------------------------------
C20_NoStaleDataOnError ==
  (ReadError /\ (ByRequest \/ ByRun)) =>
    \A i \in 1..Len(hist.cbs) :
      /\ hist.cbs[i].name \in TextCallbacks
           => (hist.cbs[i].arg = <<>> /\ lastReadStatus # TS_OK_SUCCESS)
      /\ hist.cbs[i].name \in NumberCallbacks
           => (hist.cbs[i].arg = 0 /\ lastReadStatus # TS_OK_SUCCESS)

\* ------------------------------------------------------------------------
\* C21: a write callback is handed TS_ERR_NOT_INSERTED only when the request
\* was connected, written and answered in time by a well-formed 200 response
\* whose body converts to entry id 0; when the body of such a response was
\* decoded, the callback is handed -401 for entry id 0 and 200 otherwise
\* ------------------------------------------------------------------------
C21_NotInsertedOnlyForZeroEntryId ==
  \A i \in 1..Len(hist.cbs) :
    (hist.op \in WriteOps /\ hist.cbs[i].name \in WriteCallbacks) =>
      /\ hist.cbs[i].arg = TS_ERR_NOT_INSERTED
           => /\ RespKind = "ok" /\ ToInt(Resp.body) = 0
              /\ hist.conn = "ok" /\ ~hist.wfail /\ hist.timedOut = "none"
      /\ (RespKind = "ok" /\ hist.cbs[i].arg = TS_OK_SUCCESS) => ToInt(Resp.body) # 0
      /\ (RespKind = "ok" /\ httpresponsetext = Resp.body)
           => hist.cbs[i].arg = (IF ToInt(Resp.body) = 0 THEN TS_ERR_NOT_INSERTED
                                 ELSE TS_OK_SUCCESS)

\* ------------------------------------------------------------------------
\* C22: a call closes the transport only after draining it, and once a request
\* has no decoder or cleanup step left the transport is closed and
\* httpresponsetext is empty if the request reported a status other than 200,
\* and the body of the response if it reported 200
\* ------------------------------------------------------------------------
C22_TerminalDrainedAndFinalized ==
  /\ \A i \in 1..Len(hist.ev) :
       hist.ev[i] = "stop" => \E j \in 1..(i - 1) : hist.ev[j] = "drain"
  /\ (hist.nreq > 0 /\ StepsGone /\ (ByRequest \/ ByRun)) =>
       /\ ~client.connected
       /\ ErrorEnd => httpresponsetext = <<>>
       /\ (~ErrorEnd /\ RespKind = "ok") => httpresponsetext = Resp.body

\* ------------------------------------------------------------------------
\* C23: while a decoder step of a request is pending, from the moment the
\* request has written its bytes and pushed it until the body step has
\* completed, httpresponsetext is empty
\* ------------------------------------------------------------------------
C23_TextClearedBeforeRequest ==
  (hist.nreq > 0 /\ OnStack(DecoderSteps)) => httpresponsetext = <<>>

\* ------------------------------------------------------------------------
\* setField called with every kind of argument, before a request and while
\* one is pending
\* ------------------------------------------------------------------------
\* the field numbers at both ends of the range and next to them
SetFieldFields == {FIELDNUM_MIN - 1, FIELDNUM_MIN, FIELDNUM_MAX, FIELDNUM_MAX + 1}

\* the empty value, a short one, the longest allowed and one a byte longer
SetFieldValues == {"", "7", Rep("x", FIELDLENGTH_MAX), Rep("x", FIELDLENGTH_MAX + 1)}

\* setField(field, value), with its arguments and its return code observed
SetFieldCall ==
  \E field \in SetFieldFields, value \in SetFieldValues :
    /\ nextWriteField' = IF setFieldCode(field, value) = TS_OK_SUCCESS
                         THEN [nextWriteField EXCEPT ![field] = value]
                         ELSE nextWriteField
    /\ hist' = [hist EXCEPT !.act = "setField", !.inv = <<>>, !.cbs = <<>>,
                            !.tx = <<>>, !.ev = <<>>, !.key = "none",
                            !.call = [field |-> field, value |-> value,
                                      ret |-> setFieldCode(field, value)]]
    /\ UNCHANGED <<stackofreturns, lastReadStatus, httpresponsetext, timestamp1,
                   contentLength, nextWriteLatitude, nextWriteLongitude,
                   nextWriteElevation, nextWriteStatus, nextWriteTwitter, nextWriteTweet,
                   nextWriteCreatedAt, lastFeed, client, now>>

NextSet ==
  \/ SetFieldCall
  \/ SetLatitude
  \/ SetStatus
  \/ GetFieldAsString
  \/ ReadRaw

SpecSet == InitLive /\ [][NextSet]_vars

MaxCycles == 2

\* the callback of the last request has fired and nothing of it is awaited
CycleDone ==
  \/ hist.nreq = 0
  \/ hist.cbCount > 0 /\ ~OnStack(DecoderSteps \cup CleanupSteps)

CycleResponses == {"ok", "notFound"}

WriteFieldCycle ==
  /\ hist.nreq < MaxCycles
  /\ CycleDone
  /\ \E ok \in BOOLEAN, r \in CycleResponses :
       Request("writeField", writeField(Begin("KEY"), 12, 1, "7", "KEY", ok, 0, r), r)

ReadFloatFieldCycle ==
  /\ hist.nreq < MaxCycles
  /\ CycleDone
  /\ \E ok \in BOOLEAN, r \in CycleResponses :
       Request("readFloatField", readFloatField(Begin("KEY"), 12, 1, "KEY", ok, 0, r), r)

NextCycles ==
  \/ WriteFieldCycle
  \/ ReadFloatFieldCycle
  \/ Run
  \/ Deliver
  \/ Tick

SpecCycles == InitLive /\ [][NextCycles]_vars

\* ------------------------------------------------------------------------
\* C25: when each request is issued only after the completion callback of the
\* one before has fired, stackofreturns never holds more than 3 steps
\* ------------------------------------------------------------------------
C25_StackDepthAtMost3 == Len(stackofreturns) <= 3

\* ------------------------------------------------------------------------
\* A request issued while the steps of an earlier one are pending
\* ------------------------------------------------------------------------
ReadStatusFirst ==
  /\ hist.nreq = 0
  /\ \E r \in CycleResponses :
       Request("readStatus", readStatus(Begin("KEY"), 12, "KEY", TRUE, 0, r), r)

\* the sketch does not wait: the earlier request still has a decoder step
Overlapping == hist.nreq = 1 /\ OnStack(DecoderSteps)

WriteRawOver ==
  /\ Overlapping
  /\ \E postMessage \in PostMessages, ok \in BOOLEAN, r \in CycleResponses,
        failAt \in {0, 1} :
       Request("writeRaw", writeRaw(Begin("KEY"), 12, postMessage, "KEY", ok, failAt, r), r)

ReadFloatFieldOver ==
  /\ Overlapping
  /\ \E field \in FieldInputs, ok \in BOOLEAN, r \in CycleResponses, failAt \in {0, 1} :
       Request("readFloatField",
               readFloatField(Begin("KEY"), 12, field, "KEY", ok, failAt, r), r)

NextOverlap ==
  \/ ReadStatusFirst
  \/ WriteRawOver
  \/ ReadFloatFieldOver
  \/ Run
  \/ Deliver
  \/ Tick

SpecOverlap == InitLive /\ [][NextOverlap]_vars

\* the call was a request issued over pending steps
IssuedOver == hist.nreq = 2 /\ ByRequest /\ hist.base > 0

\* the steps of the earlier request, as they were when the later one was issued
EarlierSteps == SubSeq(stackofreturns, 1, hist.base)

C27_CallbackExactlyOnce ==
  (hist.nreq > 0 /\ hist.op # "readRaw") =>
    /\ hist.cbCount <= 1
    /\ stackofreturns = <<>> => hist.cbCount = 1

\* ------------------------------------------------------------------------
\* C28: the code a write request hands to its completion callback is the
\* value getLastReadStatus() returns when the call that fired it is over
\* ------------------------------------------------------------------------
C28_StatusMatchesWriteCallback ==
  (hist.op \in WriteOps /\ (ByRequest \/ ByRun)) =>
    \A i \in 1..Len(hist.cbs) :
      hist.cbs[i].name \in WriteCallbacks => hist.cbs[i].arg = lastReadStatus

\* the decoder step a run() call found on top of the stack had the bytes it
\* waits for, more than TIMEOUT_MS_SERVERRESPONSE after the deadline start
ReadyButLate ==
  /\ ByRun /\ hist.inv # <<>>
  /\ hist.inv[1].step \in DecoderSteps
  /\ hist.inv[1].late
  /\ hist.inv[1].avail >= (IF hist.inv[1].step = "getHTTPResponse" THEN HeaderMinBytes
                           ELSE hist.inv[1].cl)

\* ------------------------------------------------------------------------
\* C29: a run() that finds the bytes a decoder step waits for (17 for the
\* header step, contentLength for the body step) decodes, however late it is:
\* the step does not stay waiting, no step of the call ends in a timeout and
\* lastReadStatus is not TS_ERR_TIMEOUT after the call
\* ------------------------------------------------------------------------
C29_DeadlineOnlyWhenBytesMissing ==
  ReadyButLate =>
    /\ lastReadStatus # TS_ERR_TIMEOUT
    /\ hist.timedOut = "none"
    /\ stackofreturns # hist.inv[1].stk
    /\ hist.inv[1].step = "getHTTPResponse_1" =>
         /\ Len(stackofreturns) = Len(hist.inv[1].stk) - 1
         /\ Len(httpresponsetext) = hist.inv[1].cl

\* the body of a well-formed answer was there at a run() made more than
\* 5000 ms after the header end, and was decoded
C29_Witness ==
  /\ ReadyButLate
  /\ hist.inv[1].step = "getHTTPResponse_1"
  /\ RespKind = "ok"
  /\ hist.expired
  /\ lastReadStatus = TS_OK_SUCCESS
  /\ httpresponsetext = Resp.body

\* ------------------------------------------------------------------------
\* C30: a run() that finds a decoder step without the bytes it waits for ends
\* the step with TS_ERR_TIMEOUT exactly when more than 5000 ms have passed
\* since timestamp1 was set, counted in milliseconds and not by comparing clock
\* values: at 5000 ms the step waits on, also when millis() has wrapped past
\* 2^32 since timestamp1 was set
\* ------------------------------------------------------------------------
C30_TimeoutStrictlyAfter5000 ==
  [][(RunStep /\ NotReady) =>
       /\ hist.elapsed > 5000 =>
            /\ lastReadStatus' = TS_ERR_TIMEOUT
            /\ stackofreturns' = SubSeq(stackofreturns, 1, Len(stackofreturns) - 1)
       /\ hist.elapsed <= 5000 =>
            /\ lastReadStatus' = lastReadStatus
            /\ stackofreturns' = stackofreturns]_vars

\* the body step was polled 5000 ms after the header end without its bytes,
\* millis() having wrapped in between, and waits on
C30_Witness ==
  /\ ByRun /\ hist.inv # <<>>
  /\ hist.inv[1].step = "getHTTPResponse_1"
  /\ hist.inv[1].avail < hist.inv[1].cl
  /\ hist.elapsed = 5000
  /\ timestamp1[1] = Limb - 1 /\ now[1] = 0
  /\ Top(stackofreturns) = "getHTTPResponse_1"
  /\ lastReadStatus = TS_OK_SUCCESS

MaxStagedFirst == 1

FewStaged == StagedCount < MaxStagedFirst

FirstWrite == stackofreturns = <<>> /\ hist.nreq = 0

WriteFieldsStaged ==
  /\ hist.nreq < MaxCycles
  /\ hist.nreq = 0 \/ hist.act \in WriteOps \/ ~OnStack(DecoderSteps \cup CleanupSteps)
  /\ \E core \in Cores, ok \in BOOLEAN :
       \E failAt \in FailPoints(writeFieldsPrints("KEY", core)) :
         Request("writeFields", writeFields(Begin("KEY"), 12, "KEY", core, ok, failAt, "ok"),
                 "ok")

WriteFieldStaged ==
  /\ FirstWrite
  /\ \E field \in {FIELDNUM_MIN - 1, FIELDNUM_MIN}, ok \in BOOLEAN, failAt \in {0, 1} :
       Request("writeField",
               writeField(Begin("KEY"), 12, field, "7", "KEY", ok, failAt, "ok"), "ok")

WriteRawStaged ==
  /\ FirstWrite
  /\ \E ok \in BOOLEAN, failAt \in {0, 1} :
       Request("writeRaw", writeRaw(Begin("KEY"), 12, "field1=7", "KEY", ok, failAt, "ok"),
               "ok")

NextStaged ==
  \/ FewStaged /\ SetAnyField
  \/ FewStaged /\ SetLatitude
  \/ FewStaged /\ SetLongitude
  \/ FewStaged /\ SetElevation
  \/ FewStaged /\ SetStatus
  \/ SetTwitterTweet
  \/ FewStaged /\ SetCreatedAt
  \/ WriteFieldsStaged
  \/ WriteFieldStaged
  \/ WriteRawStaged
  \/ Run
  \/ Deliver
  \/ Tick

SpecStaged == InitLive /\ [][NextStaged]_vars

\* the staged values are those resetWriteFields() leaves
NoneStaged ==
  /\ \A iField \in FIELDNUM_MIN..FIELDNUM_MAX : nextWriteField[iField] = ""
  /\ isnan(nextWriteLatitude) /\ isnan(nextWriteLongitude) /\ isnan(nextWriteElevation)
  /\ nextWriteStatus = "" /\ nextWriteTwitter = "" /\ nextWriteTweet = ""
  /\ nextWriteCreatedAt = ""

\* the step is a call of the operation
Calls(op) == hist'.nreq = hist.nreq + 1 /\ hist'.op = op

\* the request before was written to its end
SentBefore(op) == hist.op = op /\ hist.conn = "ok" /\ ~hist.wfail /\ hist.resp # "none"

\* ------------------------------------------------------------------------
\* C32: a call of writeFields leaves every staged value cleared when its
\* connect() succeeded and leaves them as they were when it failed, and a
\* writeFields that follows a sent writeFields with no setter called in between
\* reports TS_ERR_SETFIELD_NOT_CALLED
\* ------------------------------------------------------------------------
C32_WriteFieldsClearsStaged ==
  [][Calls("writeFields") =>
       /\ hist'.conn = "ok" => NoneStaged'
       /\ hist'.conn = "failed" => UNCHANGED staged
       /\ SentBefore("writeFields") =>
            hist'.cbs = <<[name |-> "onWriteFieldsCallback",
                           arg |-> TS_ERR_SETFIELD_NOT_CALLED]>>]_vars

\* ------------------------------------------------------------------------
\* C33: a call of writeField or writeRaw, and every call of run() that carries
\* its request on, leaves the values staged for a later writeFields as they
\* were
\* ------------------------------------------------------------------------
C33_SingleWriteKeepsStaged ==
  [][hist'.op \in {"writeField", "writeRaw"} => UNCHANGED staged]_vars

\* ------------------------------------------------------------------------
\* Two runs of one read that differ in what earlier requests left behind
\* ------------------------------------------------------------------------
\* what the earlier requests of the second run left in lastReadStatus,
\* httpresponsetext and contentLength: those of a request that timed out
OtherLeftovers == {[status |-> TS_ERR_TIMEOUT, text |-> <<>>, cl |-> 0]}

\* the second run starts in the same state but for the three leftovers; its
\* state is hist.twin[1] and it receives the same calls, bytes and clock
InitTwin ==
  /\ EarlierRead
  /\ \E l \in OtherLeftovers :
       /\ <<l.status, l.text, l.cl>> # <<lastReadStatus, httpresponsetext, contentLength>>
       /\ hist = [NoHistory EXCEPT
                    !.twin = <<[Cur EXCEPT !.status = l.status, !.text = l.text,
                                           !.cl = l.cl]>>]

\* the second run's state when a call starts
TwinCur ==
  [hist.twin[1] EXCEPT !.now = now, !.inv = <<>>, !.cbs = <<>>, !.tx = <<>>,
                       !.ev = <<>>, !.key = "none", !.reset = FALSE]

TwinBegin(key) == [TwinCur EXCEPT !.stops = 0, !.key = key]

TwinResponses == {"ok", "okJson", "short"}

TwinFields == {FIELDNUM_MIN - 1, FIELDNUM_MIN}

\* the request is issued in both runs with the same arguments and meets the
\* same transport
BothRequest(op, s, t, r) ==
  /\ Commit(s)
  /\ hist' = [Requested(op, s, r) EXCEPT !.twin = <<t>>]

ReadRawTwin ==
  /\ CanIssue
  /\ \E ok \in BOOLEAN, failAt \in {0, 1}, r \in TwinResponses :
       BothRequest("readRaw",
                   readRaw(Begin("KEY"), 12, "/feeds/last.txt", "KEY", ok, failAt, r),
                   readRaw(TwinBegin("KEY"), 12, "/feeds/last.txt", "KEY", ok, failAt, r), r)

ReadStringFieldTwin ==
  /\ CanIssue
  /\ \E field \in TwinFields, ok \in BOOLEAN, failAt \in {0, 1}, r \in TwinResponses :
       BothRequest("readStringField",
                   readStringField(Begin("KEY"), 12, field, "KEY", ok, failAt, r),
                   readStringField(TwinBegin("KEY"), 12, field, "KEY", ok, failAt, r), r)

ReadFloatFieldTwin ==
  /\ CanIssue
  /\ \E field \in TwinFields, ok \in BOOLEAN, failAt \in {0, 1}, r \in TwinResponses :
       BothRequest("readFloatField",
                   readFloatField(Begin("KEY"), 12, field, "KEY", ok, failAt, r),
                   readFloatField(TwinBegin("KEY"), 12, field, "KEY", ok, failAt, r), r)

ReadLongFieldTwin ==
  /\ CanIssue
  /\ \E field \in TwinFields, ok \in BOOLEAN, failAt \in {0, 1}, r \in TwinResponses :
       BothRequest("readLongField",
                   readLongField(Begin("KEY"), 12, field, "KEY", ok, failAt, r),
                   readLongField(TwinBegin("KEY"), 12, field, "KEY", ok, failAt, r), r)

ReadIntFieldTwin ==
  /\ CanIssue
  /\ \E field \in TwinFields, ok \in BOOLEAN, failAt \in {0, 1}, r \in TwinResponses :
       BothRequest("readIntField",
                   readIntField(Begin("KEY"), 12, field, "KEY", ok, failAt, r),
                   readIntField(TwinBegin("KEY"), 12, field, "KEY", ok, failAt, r), r)

ReadStatusTwin ==
  /\ CanIssue
  /\ \E ok \in BOOLEAN, failAt \in {0, 1}, r \in TwinResponses :
       BothRequest("readStatus", readStatus(Begin("KEY"), 12, "KEY", ok, failAt, r),
                   readStatus(TwinBegin("KEY"), 12, "KEY", ok, failAt, r), r)

ReadCreatedAtTwin ==
  /\ CanIssue
  /\ \E ok \in BOOLEAN, failAt \in {0, 1}, r \in TwinResponses :
       BothRequest("readCreatedAt", readCreatedAt(Begin("KEY"), 12, "KEY", ok, failAt, r),
                   readCreatedAt(TwinBegin("KEY"), 12, "KEY", ok, failAt, r), r)

\* run() is called in both runs, the same bytes arriving during the call
RunTwin ==
  /\ stackofreturns # <<>> \/ hist.twin[1].stack # <<>>
  /\ \E k \in Arrivals(Cur) :
       LET s == run(Cur, k)
           t == run(TwinCur, k)
       IN /\ Commit(s)
          /\ hist' = [Observed(hist, "run", s) EXCEPT !.twin = <<t>>]

\* the same bytes arrive in both runs
DeliverTwin ==
  \E n \in DeliverSizes(client.wire) :
    LET t == hist.twin[1]
        m == IF t.connected THEN Min(n, Len(t.wire)) ELSE 0
    IN /\ client.connected
       /\ hist.ndeliv < MaxDeliveries
       /\ client' = [client EXCEPT !.rx = @ \o SubSeq(client.wire, 1, n),
                                   !.wire = Tail2(client.wire, n + 1)]
       /\ hist' = [hist EXCEPT
                     !.ndeliv = @ + 1,
                     !.twin = <<[t EXCEPT !.rx = @ \o SubSeq(t.wire, 1, m),
                                          !.wire = Tail2(t.wire, m + 1)]>>]
       /\ UNCHANGED <<stackofreturns, lastReadStatus, httpresponsetext, timestamp1,
                      contentLength, staged, lastFeed, now>>

\* getFieldAsString(field) is called in both runs between two run() calls,
\* when the decoder has ended and the cleanup step is next
GetFieldAsStringTwin ==
  \E field \in {FIELDNUM_MIN} :
    /\ stackofreturns # <<>>
    /\ Top(stackofreturns) = "readRaw_1"
    /\ lastReadStatus' = getFieldAsStringStatus(field)
    /\ hist' = [hist EXCEPT !.act = "getFieldAsString", !.inv = <<>>, !.cbs = <<>>,
                            !.tx = <<>>, !.ev = <<>>, !.key = "none",
                            !.twin = <<[TwinCur EXCEPT
                                          !.status = getFieldAsStringStatus(field)]>>]
    /\ UNCHANGED <<stackofreturns, httpresponsetext, timestamp1, contentLength, staged,
                   lastFeed, client, now>>

NextTwin ==
  \/ ReadRawTwin
  \/ ReadStringFieldTwin
  \/ ReadFloatFieldTwin
  \/ ReadLongFieldTwin
  \/ ReadIntFieldTwin
  \/ ReadStatusTwin
  \/ ReadCreatedAtTwin
  \/ RunTwin
  \/ DeliverTwin
  \/ Tick
  \/ GetFieldAsStringTwin

SpecTwin == InitTwin /\ [][NextTwin]_vars

\* the state of the second run
Twin == hist.twin[1]

\* ------------------------------------------------------------------------
\* C34: two runs of a read issued on an empty stack that differ only in the
\* lastReadStatus, httpresponsetext and contentLength left by earlier requests
\* make the same progress, hand the same values to the callbacks and, when the
\* stack is empty again, show the same lastReadStatus and httpresponsetext
\* ------------------------------------------------------------------------
C34_ReadResultIndependentOfLeftovers ==
  (hist.nreq > 0 /\ hist.op \in ReadOps) =>
    /\ Twin.stack = stackofreturns
    /\ Twin.cbs = hist.cbs
    /\ stackofreturns = <<>> =>
         /\ Twin.status = lastReadStatus
         /\ Twin.text = httpresponsetext

====
